---------------------------- MODULE Spec2Model ----------------------------
(***************************************************************************)
(* A model of the pdf-translator-ai backend: the job store                 *)
(* (backend/app/models/job.py), the chunker (services/chunker.py), the     *)
(* retrying translator (services/translator.py) and the background         *)
(* pipeline (main.py, process_translation_job).                            *)
(*                                                                         *)
(* The login lockout of the admin routes (admin_routes.py) is modelled     *)
(* with it.  Twelve specifications share the variables:                    *)
(*   Spec           the job store under arbitrary callers, the sweep and   *)
(*                  restarts                                               *)
(*   SpecStoreIO    the job store one statement at a time, with a status   *)
(*                  reader, failing writes and crashes                     *)
(*   SpecSweep      the sweep alone on any store, with failing removals    *)
(*   SpecSweepLive  the sweep thread under weak fairness                   *)
(*   SpecChunker    chunk_pages applied to bounded page lists              *)
(*   SpecTranslate  translate_chunk against an unreliable API              *)
(*   SpecPipeline   process_translation_job for one job                    *)
(*   SpecPipelineLive  the same under weak fairness of the worker          *)
(*   SpecDownload   the download endpoint beside the worker and the sweep  *)
(*   SpecFrame      two jobs side by side                                  *)
(*   SpecLock       the job store, the pipeline's stage calls, the status  *)
(*                  request and the sweep around job.py's _lock            *)
(*   SpecLogin      verify_admin_credentials for concurrent requests       *)
(***************************************************************************)
EXTENDS Integers, Sequences, FiniteSets, TLC

(***************************************************************************)
(* Bounds of the model.                                                    *)
(***************************************************************************)
MaxJobs == 1
MaxClock == 4
MaxPages == 2         \* pages in a page list handed to chunk_pages
MaxPageLen == 4       \* characters in one page
MaxWordsArg == 3      \* largest max_words argument tried
MaxParas == 3         \* paragraphs of a document handed over as one page
MaxParaWords == 5     \* words of one paragraph of such a document
MaxRetriesArg == 3    \* largest max_retries a TranslatorService is built with
TimeStep == 300       \* seconds by which the pipeline's clock moves
MaxSweepJobs == 2      \* jobs in the store SpecSweep starts from
MaxOps == 3           \* store operations in one run of SpecStoreIO
MaxElapsed == 900     \* the pipeline's clock stops here
MaxLockOps == 2       \* store operations in one run of SpecLock
MaxRequests == 2      \* admin requests in flight at once
MaxLogins == 7        \* admin requests in one run of SpecLogin
LoginTimeStep == 10   \* minutes by which the admin routes' clock moves
MaxLoginClock == 20   \* the admin routes' clock stops here
PipelineMaxWords == 1 \* max_words of the pipeline's chunk_pages call, scaled
                      \* down from 900 to the size of the sample pages

(***************************************************************************)
(* Program constants.                                                      *)
(***************************************************************************)
CLEANUP_AFTER_HOURS == 2
sleep_between_retries == 2
DEFAULT_MAX_RETRIES == 3
TIME_LIMIT == 600
MIN_TOTAL_CHARS == 50
max_attempts == 5
lockout_duration == 15

JobIds == 1..MaxJobs
\* the ids a caller may pass: those of JobIds and one that upload_pdf never
\* hands out
CallIds == 1..(MaxJobs + 1)
Progresses == {10, 90}
Messages == {<<"m1">>, <<"m2">>}

VARIABLES
    JOB_STORE,        \* job.py JOB_STORE: dict job_id -> job record (memory)
    disk,             \* uploads/.jobs/<id>.json: job_id -> saved record
    uploads,          \* ids whose uploads/<id>.pdf exists
    outputs,          \* ids whose outputs/<id>_translated.pdf exists
    issued,           \* ids uuid4 has already handed out
    clock,            \* datetime.now(), in hours
    jobs_to_cleanup,  \* cleanup_old_jobs: ids still to clean in this sweep
    cjob,             \* cleanup_job_files: the id being cleaned (0: none)
    cpc,              \* cleanup_job_files: position of the sweep thread
    cleaned,          \* ids for which a cleanup_job_files call has returned
    pages,            \* chunk_pages: the page texts handed to it
    max_words,        \* chunk_pages: its max_words argument
    chunk_out,        \* chunk_pages: what the call produced
    chunk_pc,         \* position of the caller of chunk_pages
    MOCK_TRANSLATION, \* translator.py: the MOCK_TRANSLATION setting
    max_retries,      \* TranslatorService.max_retries
    t_text,           \* translate_chunk: its text argument
    attempt,          \* translate_chunk: the loop variable
    t_pc,             \* translate_chunk: position
    t_result,         \* translate_chunk: the value returned
    t_error,          \* translate_chunk: the TranslationError raised
    api_log,          \* the API's answers to this call's attempts, in order
    sleeps,           \* the time.sleep() durations of this call, in order
    p_pc,             \* process_translation_job: position
    p_job,            \* process_translation_job: job_id (0: none yet)
    elapsed,          \* time.monotonic() - start_time, in seconds
    idx,              \* process_translation_job: the loop index
    translated_chunks,\* process_translation_job: translated_chunks
    calls,            \* the stage and chunk calls started so far, in order
    p_error,          \* the exception the except clauses caught, <<>> if none
    store_calls,      \* the job store calls process_translation_job made
    timers,           \* the pending threading.Timer objects of job.py
    restarted,        \* the process was restarted on the same uploads/.jobs
    remove_failed,    \* ids for which an os.remove of cleanup_job_files raised
    swept,            \* ids the current cleanup_old_jobs call selected
    w_pc,             \* a store operation in progress: its position
    w_op,             \* a store operation in progress: its name and job_id
    w_todo,           \* its dict assignments still to run, in source order
    r_pc,             \* get_status: position of the status request
    r_job,            \* get_status: the id whose dict get_job returned
    r_seen,           \* get_status: the fields it has read so far
    history,          \* views of the job committed since get_job returned
    committed,        \* id -> record on disk when the last operation returned
    pending,          \* id -> record the operation in flight was writing
    crashed,          \* the process crashed and no operation ran since
    ops_done,         \* store operations started so far
    lock,             \* job.py _lock: "free", or the thread that holds it
    attempts,         \* login_tracker.attempts: username -> failure times
    l_now,            \* datetime.now() of the admin routes, in minutes
    l_pc,             \* verify_admin_credentials: position of each request
    l_cred,           \* the password each request carries: "good" or "bad"
    l_kept,           \* is_locked_out: the list its comprehension built
    l_resp,           \* the HTTP status each request was answered with
    failed,           \* times of the 401 answers since the last 200
    failed_all,       \* times of all 401 answers
    l_due,            \* max_attempts failures in the window since the
                      \* request arrived
    logins,           \* requests started so far
    d_pc,             \* download_translated_pdf: position of the request
    d_job,            \* download_translated_pdf: its job_id
    d_resp            \* the HTTP status the last download was answered with

storeVars == <<JOB_STORE, disk, uploads, outputs, issued, clock,
               jobs_to_cleanup, cjob, cpc, cleaned>>

chunkVars == <<pages, max_words, chunk_out, chunk_pc>>

trVars == <<MOCK_TRANSLATION, max_retries, t_text, attempt, t_pc, t_result,
            t_error, api_log, sleeps>>

pipeVars == <<p_pc, p_job, elapsed, idx, translated_chunks, calls, p_error,
              store_calls>>

auxVars == <<timers, restarted, remove_failed, swept>>

ioVars == <<w_pc, w_op, w_todo, r_pc, r_job, r_seen, history, committed,
            pending, crashed, ops_done, lock>>

loginVars == <<attempts, l_now, l_pc, l_cred, l_kept, l_resp, failed,
               failed_all, l_due, logins>>

dlVars == <<d_pc, d_job, d_resp>>

vars == <<storeVars, chunkVars, trVars, pipeVars, auxVars, ioVars, loginVars,
          dlVars>>

(***************************************************************************)
(* Job records.  A datetime field is <<>> when the key is absent and <<t>> *)
(* when it holds the datetime t; on disk a datetime is its isoformat()     *)
(* string, modelled as [iso |-> t].                                        *)
(***************************************************************************)
isoformat(d) == [iso |-> d]
fromisoformat(s) == s.iso

DateToDisk(field) == IF field = <<>> THEN <<>> ELSE <<isoformat(field[1])>>
DateFromDisk(field) == IF field = <<>> THEN <<>> ELSE <<fromisoformat(field[1])>>

\* a variant that saves every record as not downloaded
data_to_save_no_flag(job) ==
    [job EXCEPT !.created_at = DateToDisk(@),
                !.completed_at = DateToDisk(@),
                !.failed_at = DateToDisk(@),
                !.downloaded = FALSE]

\* what json.dump writes for a job record (job.py lines 47-53)
data_to_save(job) ==
    [job EXCEPT !.created_at = DateToDisk(@),
                !.completed_at = DateToDisk(@),
                !.failed_at = DateToDisk(@)]

\* what _load_job_from_disk returns for a saved record (job.py lines 64-71)
loaded_data(data) ==
    [data EXCEPT !.created_at = DateFromDisk(@),
                 !.completed_at = DateFromDisk(@),
                 !.failed_at = DateFromDisk(@)]

\* a metadata file that open(path, 'w') has emptied and json.dump has not
\* filled yet
Truncated == [truncated |-> TRUE]

\* json.load succeeds on the file (job.py 63-64); on a truncated file it
\* raises, and _load_job_from_disk returns None (72-74)
Readable(file) == "status" \in DOMAIN file

\* _load_all_jobs_from_disk (job.py 77-95): every file that loads
LoadAll(d) ==
    [j \in {k \in DOMAIN d : Readable(d[k])} |-> loaded_data(d[j])]

\* a variant that writes the file of every record of the store
SavedDisk_every_record(store, d, j) ==
    [k \in (DOMAIN d) \cup (DOMAIN store) |->
        IF k \in DOMAIN store THEN data_to_save(store[k]) ELSE d[k]]

\* the disk after _save_job_to_disk(j) given the memory map store
SavedDisk(store, d, j) ==
    IF j \in DOMAIN store
    THEN [k \in (DOMAIN d) \cup {j} |->
            IF k = j THEN data_to_save(store[j]) ELSE d[k]]
    ELSE d

Put(store, j, job) ==
    [k \in (DOMAIN store) \cup {j} |-> IF k = j THEN job ELSE store[k]]

Remove(f, j) == [k \in (DOMAIN f) \ {j} |-> f[k]]

NewJob(now) ==
    [status |-> "started", progress |-> 0, message |-> <<"Job created">>,
     created_at |-> <<now>>, original_filename |-> "file.pdf",
     downloaded |-> FALSE, completed_at |-> <<>>, failed_at |-> <<>>]

Terminal(job) == job.status \in {"completed", "failed"}

StoreUnchangedCleanup ==
    /\ UNCHANGED <<jobs_to_cleanup, cjob, cpc, cleaned>>
    /\ UNCHANGED <<chunkVars, trVars, pipeVars>>
    /\ UNCHANGED <<auxVars, ioVars, loginVars, dlVars>>

(***************************************************************************)
(* Job store operations: what each function of job.py does to JOB_STORE    *)
(* and to the metadata files.  Each runs under _lock from start to end, so *)
(* it is one atomic step with respect to the other locked operations.      *)
(***************************************************************************)
create_job(j) ==
    /\ JOB_STORE' = Put(JOB_STORE, j, NewJob(clock))
    /\ disk' = SavedDisk(JOB_STORE', disk, j)

UpdatedJob(job, progress, message) ==
    [job EXCEPT !.progress = progress, !.message = message]

\* a variant that creates the record when the id has none
update_job_upsert(j, progress, message) ==
    /\ JOB_STORE' = IF j \in DOMAIN JOB_STORE
                    THEN [JOB_STORE EXCEPT
                            ![j] = UpdatedJob(@, progress, message)]
                    ELSE Put(JOB_STORE, j,
                             UpdatedJob(NewJob(clock), progress, message))
    /\ disk' = SavedDisk(JOB_STORE', disk, j)

update_job(j, progress, message) ==
    /\ JOB_STORE' = IF j \in DOMAIN JOB_STORE
                    THEN [JOB_STORE EXCEPT
                            ![j] = UpdatedJob(@, progress, message)]
                    ELSE JOB_STORE
    /\ disk' = IF j \in DOMAIN JOB_STORE
               THEN SavedDisk(JOB_STORE', disk, j)
               ELSE disk

\* a variant that leaves the progress as it was
CompletedJob_keeps_progress(job, now) ==
    [job EXCEPT !.status = "completed",
                !.message = <<"Translation completed successfully">>,
                !.completed_at = <<now>>]

CompletedJob(job, now) ==
    [job EXCEPT !.status = "completed", !.progress = 100,
                !.message = <<"Translation completed successfully">>,
                !.completed_at = <<now>>]

complete_job(j) ==
    /\ JOB_STORE' = IF j \in DOMAIN JOB_STORE
                    THEN [JOB_STORE EXCEPT ![j] = CompletedJob(@, clock)]
                    ELSE JOB_STORE
    /\ disk' = IF j \in DOMAIN JOB_STORE
               THEN SavedDisk(JOB_STORE', disk, j)
               ELSE disk

\* a variant that sets the progress back to 0
FailedJob_resets_progress(job, message, now) ==
    [job EXCEPT !.status = "failed", !.message = message, !.progress = 0,
                !.failed_at = <<now>>]

FailedJob(job, message, now) ==
    [job EXCEPT !.status = "failed", !.message = message,
                !.failed_at = <<now>>]

fail_job(j, message) ==
    /\ JOB_STORE' = IF j \in DOMAIN JOB_STORE
                    THEN [JOB_STORE EXCEPT ![j] = FailedJob(@, message, clock)]
                    ELSE JOB_STORE
    /\ disk' = IF j \in DOMAIN JOB_STORE
               THEN SavedDisk(JOB_STORE', disk, j)
               ELSE disk

DownloadedJob(job) == [job EXCEPT !.downloaded = TRUE]

mark_downloaded(j) ==
    /\ JOB_STORE' = IF j \in DOMAIN JOB_STORE
                    THEN [JOB_STORE EXCEPT ![j] = DownloadedJob(@)]
                    ELSE JOB_STORE
    /\ disk' = IF j \in DOMAIN JOB_STORE
               THEN SavedDisk(JOB_STORE', disk, j)
               ELSE disk

\* get_job: memory first, then disk; a record found on disk is cached
get_job(j) ==
    /\ JOB_STORE' = IF /\ j \notin DOMAIN JOB_STORE
                       /\ j \in DOMAIN disk
                       /\ Readable(disk[j])
                    THEN Put(JOB_STORE, j, loaded_data(disk[j]))
                    ELSE JOB_STORE
    /\ disk' = disk

(***************************************************************************)
(* The callers of the job store in Spec: the upload endpoint creates jobs  *)
(* under fresh uuid4 ids, and workers, status polls and downloads call the *)
(* other operations with any id and any argument.                          *)
(***************************************************************************)
upload_pdf(j) ==
    /\ j \notin issued
    /\ issued' = issued \cup {j}
    /\ uploads' = uploads \cup {j}
    /\ create_job(j)
    /\ UNCHANGED <<outputs, clock>>
    /\ StoreUnchangedCleanup

Call_update_job(j, progress, message) ==
    /\ update_job(j, progress, message)
    /\ UNCHANGED <<uploads, outputs, issued, clock>>
    /\ StoreUnchangedCleanup

Call_complete_job(j) ==
    /\ complete_job(j)
    /\ UNCHANGED <<uploads, outputs, issued, clock>>
    /\ StoreUnchangedCleanup

Call_fail_job(j, message) ==
    /\ fail_job(j, message)
    /\ UNCHANGED <<uploads, outputs, issued, clock>>
    /\ StoreUnchangedCleanup

Call_mark_downloaded(j) ==
    /\ mark_downloaded(j)
    /\ UNCHANGED <<uploads, outputs, issued, clock>>
    /\ StoreUnchangedCleanup

Call_get_job(j) ==
    /\ get_job(j)
    /\ UNCHANGED <<uploads, outputs, issued, clock>>
    /\ StoreUnchangedCleanup

\* main.py create_pdf_from_text writing outputs/<id>_translated.pdf
write_output(j) ==
    /\ j \in DOMAIN JOB_STORE
    /\ ~Terminal(JOB_STORE[j])
    /\ j \notin outputs
    /\ outputs' = outputs \cup {j}
    /\ UNCHANGED <<JOB_STORE, disk, uploads, issued, clock>>
    /\ StoreUnchangedCleanup

Tick ==
    /\ clock < MaxClock
    /\ clock' = clock + 1
    /\ UNCHANGED <<JOB_STORE, disk, uploads, outputs, issued>>
    /\ StoreUnchangedCleanup

(***************************************************************************)
(* The sweep thread: cleanup_old_jobs picks the old jobs under _lock, then *)
(* calls cleanup_job_files for each outside the lock.  cleanup_job_files   *)
(* removes the three files without the lock, one system call at a time,    *)
(* and takes the lock only to drop the memory record.                      *)
(***************************************************************************)
\* a variant that also takes the jobs created exactly CLEANUP_AFTER_HOURS ago
OldJobs_inclusive(store, now) ==
    {j \in DOMAIN store :
        /\ store[j].created_at # <<>>
        /\ store[j].created_at[1] <= now - CLEANUP_AFTER_HOURS}

\* job.py 213-220: the ids whose created_at is before the cutoff
OldJobs(store, now) ==
    {j \in DOMAIN store :
        /\ store[j].created_at # <<>>
        /\ store[j].created_at[1] < now - CLEANUP_AFTER_HOURS}

\* the timer start_cleanup_scheduler arms for the next sweep (job.py 233)
PeriodicTimer == [target |-> "schedule_next", job |-> 0]

\* a variant that calls os.remove without os.path.exists and without try
guarded_remove_unguarded(present, oserror) ==
    IF ~present \/ oserror THEN "raised" ELSE "removed"

\* job.py 178-183, 187-192, 196-201: if os.path.exists(p): try os.remove(p)
\* except Exception: log.  oserror tells whether os.remove raises.
guarded_remove(present, oserror) ==
    IF ~present THEN "skipped" ELSE IF oserror THEN "caught" ELSE "removed"

\* the position after a removal step with the given outcome
after_remove(outcome, next_pc) == IF outcome = "raised" THEN "raised" ELSE next_pc

failed_after(outcome) ==
    IF outcome \in {"caught", "raised"} THEN remove_failed \cup {cjob}
    ELSE remove_failed

\* "with _lock:" (threading.Lock, job.py 27): the thread goes on only when
\* no thread holds the lock, itself included
acquire(thread) == lock = "free"

\* a variant in which the loop over jobs_to_cleanup is inside the with block
lock_in_cleanup_loop_held(thread) == thread

\* job.py 212-223: the with block of cleanup_old_jobs ends before the loop
\* that calls cleanup_job_files, so the sweep thread runs the loop without
\* the lock
lock_in_cleanup_loop(thread) == "free"

\* schedule_next fires: cleanup_old_jobs selects the old jobs under _lock
cleanup_old_jobs ==
    /\ PeriodicTimer \in timers
    /\ cpc = "idle"
    /\ acquire("sweep")
    /\ lock' = lock_in_cleanup_loop("sweep")
    /\ jobs_to_cleanup = {}
    /\ OldJobs(JOB_STORE, clock) # {}
    /\ timers' = timers \ {PeriodicTimer}
    /\ jobs_to_cleanup' = OldJobs(JOB_STORE, clock)
    /\ swept' = OldJobs(JOB_STORE, clock)
    /\ UNCHANGED <<JOB_STORE, disk, uploads, outputs, issued, clock,
                   cjob, cpc, cleaned, restarted, remove_failed>>
    /\ UNCHANGED <<chunkVars, trVars, pipeVars, loginVars, dlVars>>
    /\ UNCHANGED <<w_pc, w_op, w_todo, r_pc, r_job, r_seen, history,
                   committed, pending, crashed, ops_done>>

\* job.py 233: the sweep is over, the next one is scheduled
schedule_next_rearm ==
    /\ PeriodicTimer \notin timers
    /\ cpc = "idle"
    /\ jobs_to_cleanup = {}
    /\ timers' = timers \cup {PeriodicTimer}
    /\ UNCHANGED <<storeVars, restarted, remove_failed, swept>>
    /\ UNCHANGED <<chunkVars, trVars, pipeVars, ioVars, loginVars, dlVars>>

cleanup_job_files_call ==
    /\ cpc = "idle"
    /\ \E j \in jobs_to_cleanup :
          /\ cjob' = j
          /\ jobs_to_cleanup' = jobs_to_cleanup \ {j}
          /\ cleaned' = cleaned \ {j}
    /\ cpc' = "original"
    /\ UNCHANGED <<JOB_STORE, disk, uploads, outputs, issued, clock>>
    /\ UNCHANGED <<chunkVars, trVars, pipeVars, auxVars, ioVars, loginVars, dlVars>>

cleanup_remove_original(oserror) ==
    /\ cpc = "original"
    /\ LET outcome == guarded_remove(cjob \in uploads, oserror) IN
          /\ uploads' = IF outcome = "removed" THEN uploads \ {cjob} ELSE uploads
          /\ cpc' = after_remove(outcome, "translated")
          /\ remove_failed' = failed_after(outcome)
    /\ UNCHANGED <<JOB_STORE, disk, outputs, issued, clock,
                   jobs_to_cleanup, cjob, cleaned>>
    /\ UNCHANGED <<timers, restarted, swept>>
    /\ UNCHANGED <<chunkVars, trVars, pipeVars, ioVars, loginVars, dlVars>>

cleanup_remove_translated(oserror) ==
    /\ cpc = "translated"
    /\ LET outcome == guarded_remove(cjob \in outputs, oserror) IN
          /\ outputs' = IF outcome = "removed" THEN outputs \ {cjob} ELSE outputs
          /\ cpc' = after_remove(outcome, "metadata")
          /\ remove_failed' = failed_after(outcome)
    /\ UNCHANGED <<JOB_STORE, disk, uploads, issued, clock,
                   jobs_to_cleanup, cjob, cleaned>>
    /\ UNCHANGED <<timers, restarted, swept>>
    /\ UNCHANGED <<chunkVars, trVars, pipeVars, ioVars, loginVars, dlVars>>

cleanup_remove_metadata(oserror) ==
    /\ cpc = "metadata"
    /\ LET outcome == guarded_remove(cjob \in DOMAIN disk, oserror) IN
          /\ disk' = IF outcome = "removed" THEN Remove(disk, cjob) ELSE disk
          /\ cpc' = after_remove(outcome, "memory")
          /\ remove_failed' = failed_after(outcome)
    /\ UNCHANGED <<JOB_STORE, uploads, outputs, issued, clock,
                   jobs_to_cleanup, cjob, cleaned>>
    /\ UNCHANGED <<timers, restarted, swept>>
    /\ UNCHANGED <<chunkVars, trVars, pipeVars, ioVars, loginVars, dlVars>>

\* job.py 204-206: del JOB_STORE[job_id] under _lock
cleanup_remove_memory ==
    /\ cpc = "memory"
    /\ acquire("sweep")
    /\ JOB_STORE' = Remove(JOB_STORE, cjob)
    /\ cleaned' = cleaned \cup {cjob}
    /\ cjob' = 0
    /\ cpc' = "idle"
    /\ UNCHANGED <<disk, uploads, outputs, issued, clock, jobs_to_cleanup>>
    /\ UNCHANGED <<chunkVars, trVars, pipeVars, auxVars, ioVars, loginVars, dlVars>>

\* the process is stopped and started again: job.py is imported afresh,
\* _load_all_jobs_from_disk fills JOB_STORE (job.py 95) and main.py calls
\* start_cleanup_scheduler; the threads of the old process are gone
restart ==
    /\ JOB_STORE' = LoadAll(disk)
    /\ jobs_to_cleanup' = {}
    /\ cjob' = 0
    /\ cpc' = "idle"
    /\ timers' = {PeriodicTimer}
    /\ restarted' = TRUE
    /\ swept' = {}
    /\ UNCHANGED <<disk, uploads, outputs, issued, clock, cleaned,
                   remove_failed>>
    /\ UNCHANGED <<chunkVars, trVars, pipeVars, ioVars, loginVars, dlVars>>

Requests == 1..MaxRequests

LoginIdle ==
    /\ attempts = <<>>
    /\ l_now = 0
    /\ l_pc = [r \in Requests |-> "idle"]
    /\ l_cred = [r \in Requests |-> "none"]
    /\ l_kept = [r \in Requests |-> <<>>]
    /\ l_resp = [r \in Requests |-> 0]
    /\ failed = <<>>
    /\ failed_all = <<>>
    /\ l_due = [r \in Requests |-> FALSE]
    /\ logins = 0

DownloadIdle ==
    /\ d_pc = "idle"
    /\ d_job = 0
    /\ d_resp = 0

AuxIdle ==
    /\ timers = {PeriodicTimer}
    /\ restarted = FALSE
    /\ remove_failed = {}
    /\ swept = {}

IoIdle ==
    /\ w_pc = "idle"
    /\ w_op = [name |-> "none", job |-> 0]
    /\ w_todo = <<>>
    /\ r_pc = "idle"
    /\ r_job = 0
    /\ r_seen = <<>>
    /\ history = {}
    /\ committed = <<>>
    /\ pending = <<>>
    /\ crashed = FALSE
    /\ ops_done = 0
    /\ lock = "free"

StoreInit ==
    /\ JOB_STORE = <<>>
    /\ disk = <<>>
    /\ uploads = {}
    /\ outputs = {}
    /\ issued = {}
    /\ clock = 0
    /\ jobs_to_cleanup = {}
    /\ cjob = 0
    /\ cpc = "idle"
    /\ cleaned = {}
    /\ AuxIdle
    /\ IoIdle
    /\ LoginIdle
    /\ DownloadIdle


(***************************************************************************)
(* services/chunker.py.  A text is a sequence of characters; "x" stands    *)
(* for any non-whitespace character, so words differ by their length.      *)
(***************************************************************************)
Chars == {"x", " ", "\n"}
Whitespace == {" ", "\n"}
ParaSep == <<"\n", "\n">>

Min(a, b) == IF a <= b THEN a ELSE b

\* The scanning operators below bind their arguments with t \in {s}, so
\* that each argument is evaluated once per call and not once per use.

\* str.strip()
RECURSIVE lstrip(_)
lstrip(s) ==
    CHOOSE r \in
        {IF t = <<>> THEN <<>>
         ELSE IF Head(t) \in Whitespace THEN lstrip(Tail(t)) ELSE t
           : t \in {s}} : TRUE

RECURSIVE rstrip(_)
rstrip(s) ==
    CHOOSE r \in
        {IF t = <<>> THEN <<>>
         ELSE IF t[Len(t)] \in Whitespace
              THEN rstrip(SubSeq(t, 1, Len(t) - 1))
              ELSE t
           : t \in {s}} : TRUE

strip(s) == rstrip(lstrip(s))

\* str.split(): the maximal runs of non-whitespace characters
RECURSIVE SplitWords(_, _, _)
SplitWords(s, cur, acc) ==
    CHOOSE r \in
        {IF t = <<>>
         THEN IF c = <<>> THEN a ELSE Append(a, c)
         ELSE IF Head(t) \in Whitespace
              THEN SplitWords(Tail(t), <<>>,
                              IF c = <<>> THEN a ELSE Append(a, c))
              ELSE SplitWords(Tail(t), Append(c, Head(t)), a)
           : t \in {s}, c \in {cur}, a \in {acc}} : TRUE

split_words(s) == SplitWords(s, <<>>, <<>>)

\* str.split("\n\n"): cut at each separator found scanning left to right
RECURSIVE SplitParagraphs(_, _, _)
SplitParagraphs(s, cur, acc) ==
    CHOOSE r \in
        {IF t = <<>> THEN Append(a, c)
         ELSE IF Len(t) >= 2 /\ SubSeq(t, 1, 2) = ParaSep
              THEN SplitParagraphs(SubSeq(t, 3, Len(t)), <<>>, Append(a, c))
              ELSE SplitParagraphs(Tail(t), Append(c, Head(t)), a)
           : t \in {s}, c \in {cur}, a \in {acc}} : TRUE

split_paragraphs(s) == SplitParagraphs(s, <<>>, <<>>)

\* sep.join(texts)
RECURSIVE join(_, _)
join(texts, sep) ==
    IF texts = <<>> THEN <<>>
    ELSE IF Len(texts) = 1 THEN texts[1]
    ELSE texts[1] \o sep \o join(Tail(texts), sep)

RECURSIVE StripAll(_)
StripAll(texts) ==
    IF texts = <<>> THEN <<>>
    ELSE <<strip(Head(texts))>> \o StripAll(Tail(texts))

NonBlank(text) == text # <<>> /\ strip(text) # <<>>

\* chunker.py 35-37: "\n\n".join(page.strip() for page in pages if ...)
full_text(pgs) == join(StripAll(SelectSeq(pgs, NonBlank)), ParaSep)

\* chunker.py 43-45
paragraphs(text) ==
    StripAll(SelectSeq(split_paragraphs(text), LAMBDA q : strip(q) # <<>>))

\* chunker.py 57-58: the slices words[i:i + max_words], i = 0, max_words, ...
RECURSIVE WordSlices(_, _)
WordSlices(words, mw) ==
    IF words = <<>> THEN <<>>
    ELSE <<join(SubSeq(words, 1, Min(mw, Len(words))), <<" ">>)>>
         \o WordSlices(SubSeq(words, mw + 1, Len(words)), mw)

\* a variant that never takes the branch of the very large paragraph
oversized_never(word_count, mw) == FALSE

\* chunker.py 56
oversized(word_count, mw) == word_count > mw

\* a variant that closes the chunk when the paragraph fills it exactly
fits_strict(current_word_count, word_count, mw) ==
    current_word_count + word_count < mw

\* chunker.py 62
fits(current_word_count, word_count, mw) ==
    current_word_count + word_count <= mw

\* chunker.py 51-71: the loop over the paragraphs and the final flush
RECURSIVE PackParagraphs(_, _, _, _, _)
PackParagraphs(paras, mw, chunks, current_chunk, current_word_count) ==
    IF paras = <<>>
    THEN IF current_chunk # <<>>
         THEN Append(chunks, join(current_chunk, ParaSep))
         ELSE chunks
    ELSE LET para == Head(paras)
             words == split_words(para)
             word_count == Len(words)
         IN  IF oversized(word_count, mw)
             THEN PackParagraphs(Tail(paras), mw,
                                 chunks \o WordSlices(words, mw),
                                 current_chunk, current_word_count)
             ELSE IF fits(current_word_count, word_count, mw)
             THEN PackParagraphs(Tail(paras), mw, chunks,
                                 Append(current_chunk, para),
                                 current_word_count + word_count)
             ELSE PackParagraphs(Tail(paras), mw,
                                 Append(chunks, join(current_chunk, ParaSep)),
                                 <<para>>, word_count)

\* a variant without the test of line 39
chunk_pages_no_text_check(pgs, mw) ==
    IF pgs = <<>>
    THEN [raised |-> "ChunkingError: No pages provided for chunking",
          chunks |-> <<>>]
    ELSE [raised |-> "",
          chunks |-> PackParagraphs(paragraphs(full_text(pgs)), mw,
                                    <<>>, <<>>, 0)]

\* chunk_pages(pages, max_words): raised is "" when it returns its chunks
chunk_pages(pgs, mw) ==
    IF pgs = <<>>
    THEN [raised |-> "ChunkingError: No pages provided for chunking",
          chunks |-> <<>>]
    ELSE IF strip(full_text(pgs)) = <<>>
    THEN [raised |-> "ChunkingError: PDF contains no extractable text",
          chunks |-> <<>>]
    ELSE [raised |-> "",
          chunks |-> PackParagraphs(paragraphs(full_text(pgs)), mw,
                                    <<>>, <<>>, 0)]

ChunkIdle ==
    /\ pages = <<>>
    /\ max_words = 0
    /\ chunk_out = [raised |-> "", chunks |-> <<>>]
    /\ chunk_pc = "idle"

(***************************************************************************)
(* services/translator.py, TranslatorService.translate_chunk.  One answer  *)
(* of the API to one attempt is a raised exception, a response whose       *)
(* content is None, or a response with a text.                             *)
(***************************************************************************)
ApiOutcomes ==
    {[kind |-> "raise", content |-> <<>>, err |-> "APIError"],
     [kind |-> "null", content |-> <<>>, err |-> ""]}
    \cup {[kind |-> "text", content |-> c, err |-> ""] :
            c \in {<<>>, <<" ">>, <<"t">>, <<" ", "t">>}}

TextArgs == {<<>>, <<" ">>, <<"x">>, <<" ", "x">>}

\* a variant that takes only a raised exception for a failure
attempt_failed_raise_only(o) == o.kind = "raise"

\* translator.py 159-162: the attempt did not produce a translation
attempt_failed(o) ==
    \/ o.kind = "raise"
    \/ o.kind = "null"
    \/ o.content = <<>>
    \/ strip(o.content) = <<>>

\* str(e) of the exception the except clause of lines 167-168 catches
attempt_error(o) ==
    IF o.kind = "raise" THEN o.err ELSE "Empty translation output from API"

\* a variant that gives up one attempt early
is_last_attempt_early(n, retries) == n + 1 >= retries

\* translator.py 170
is_last_attempt(n, retries) == n = retries

\* translator.py 172-174
TranslationError(retries, e) ==
    <<"Translation failed after", ToString(retries), "attempts", e>>

\* a variant that waits the same time before every retry
sleep_time_constant(n) == sleep_between_retries

\* translator.py 176-178
sleep_time(n) == sleep_between_retries * n

\* a variant that retries at once
backoff_none(slept, n) == slept

backoff(slept, n) == Append(slept, sleep_time(n))

TranslateIdle ==
    /\ MOCK_TRANSLATION = FALSE
    /\ max_retries = DEFAULT_MAX_RETRIES
    /\ t_text = <<>>
    /\ attempt = 0
    /\ t_pc = "idle"
    /\ t_result = <<>>
    /\ t_error = <<>>
    /\ api_log = <<>>
    /\ sleeps = <<>>

\* translator.py 121-138: entry of translate_chunk(text)
translate_chunk(text) ==
    /\ t_text' = text
    /\ t_error' = <<>>
    /\ api_log' = <<>>
    /\ sleeps' = <<>>
    /\ IF ~NonBlank(text)
       THEN t_result' = <<>> /\ t_pc' = "returned" /\ attempt' = 0
       ELSE IF MOCK_TRANSLATION
       THEN t_result' = strip(text) /\ t_pc' = "returned" /\ attempt' = 0
       ELSE t_result' = <<>> /\ t_pc' = "attempt" /\ attempt' = 1
    /\ UNCHANGED <<MOCK_TRANSLATION, max_retries>>

\* translator.py 139-178: one pass of the retry loop, the API answering o
api_attempt(o) ==
    /\ t_pc = "attempt"
    /\ api_log' = Append(api_log, o)
    /\ IF ~attempt_failed(o)
       THEN /\ t_result' = strip(o.content)
            /\ t_pc' = "returned"
            /\ UNCHANGED <<t_error, sleeps>>
       ELSE IF is_last_attempt(attempt, max_retries)
       THEN /\ t_error' = TranslationError(max_retries, attempt_error(o))
            /\ t_pc' = "raised"
            /\ UNCHANGED <<t_result, sleeps>>
       ELSE /\ sleeps' = backoff(sleeps, attempt)
            /\ t_pc' = "sleeping"
            /\ UNCHANGED <<t_result, t_error>>
    /\ UNCHANGED <<MOCK_TRANSLATION, max_retries, t_text, attempt>>
    /\ UNCHANGED <<storeVars, chunkVars, pipeVars>>
    /\ UNCHANGED <<auxVars, ioVars, loginVars, dlVars>>

\* translator.py 178 and 138: time.sleep returns, the loop goes on
sleep_done ==
    /\ t_pc = "sleeping"
    /\ attempt' = attempt + 1
    /\ t_pc' = "attempt"
    /\ UNCHANGED <<MOCK_TRANSLATION, max_retries, t_text, t_result, t_error,
                   api_log, sleeps>>
    /\ UNCHANGED <<storeVars, chunkVars, pipeVars>>
    /\ UNCHANGED <<auxVars, ioVars, loginVars, dlVars>>

(***************************************************************************)
(* main.py, process_translation_job.  An exception is <<class, text...>>.  *)
(* Time passes only while an external call (extract, an API attempt or a   *)
(* backoff sleep, render) is in flight.                                    *)
(***************************************************************************)
PipelineIdle ==
    /\ p_pc = "none"
    /\ p_job = 0
    /\ elapsed = 0
    /\ idx = 0
    /\ translated_chunks = <<>>
    /\ calls = <<>>
    /\ p_error = <<>>
    /\ store_calls = <<>>

Pad(text) == text \o [i \in 1..(MIN_TOTAL_CHARS - Len(text)) |-> " "]

\* what extract_text_from_pdf may return: no page, a page that is too
\* short, a page of blanks only, and pages of one and of three words
SamplePages ==
    {<<>>,
     <<<<"x">>>>,
     <<Pad(<<>>)>>,
     <<Pad(<<"x">>)>>,
     <<Pad(<<"x", " ", "x", "x", " ", "x">>)>>}

RECURSIVE total_chars(_)
total_chars(pgs) ==
    IF pgs = <<>> THEN 0 ELSE Len(Head(pgs)) + total_chars(Tail(pgs))

\* main.py 173-176
timed_out(t) == t > TIME_LIMIT

\* a variant that counts the chunks' progress from 0
chunk_progress_from_zero(i, n) == (i * 50) \div n

\* main.py 236
chunk_progress(i, n) == 40 + ((i * 50) \div n)

\* a variant that reports every failure with one fixed text
failure_message_fixed(e) == <<"Processing failed">>

\* main.py 260-274: the message each except clause hands to fail_job
failure_message(e) ==
    IF e[1] = "JobTimeoutError"
    THEN <<"Processing took too long (10+ minutes). Try a smaller PDF or contact support.">>
    ELSE IF e[1] = "PDFReadError"
    THEN <<"PDF read error">> \o Tail(e)
    ELSE <<"Processing error">> \o Tail(e)

\* a variant that leaves the loop one chunk early
loop_exhausted_early(i, n) == i + 1 >= n

\* main.py 233: the for loop has no chunk left after chunk i of n
loop_exhausted(i, n) == i >= n

PipelineStoreRest == UNCHANGED <<uploads, outputs, issued, clock,
                                 jobs_to_cleanup, cjob, cpc, cleaned>>

\* a variant whose last clause is "except TranslationError"
except_clause_no_catch_all(e) ==
    IF e[1] \in {"JobTimeoutError", "PDFReadError", "TranslationError"}
    THEN e[1] ELSE "none"

\* main.py 260, 268, 272: the except clause that catches an exception of
\* class e[1]; every class raised in the try block derives from Exception
except_clause(e) ==
    IF e[1] \in {"JobTimeoutError", "PDFReadError"} THEN e[1] ELSE "Exception"

\* a variant that translates every second chunk
next_idx_skipping(i) == i + 2

\* main.py 233: enumerate(chunks, start=1) moves to the next chunk
next_idx(i) == i + 1

\* the try block is left by exception e: the matching except clause runs
\* and the function returns; an exception no clause catches leaves
\* process_translation_job
handle(e) ==
    /\ IF except_clause(e) = "none"
       THEN UNCHANGED <<JOB_STORE, disk>>
       ELSE fail_job(p_job, failure_message(e))
    /\ p_error' = e
    /\ store_calls' = IF except_clause(e) = "none" THEN store_calls
                      ELSE Append(store_calls, "fail")
    /\ p_pc' = IF except_clause(e) = "none" THEN "raised" ELSE "done"

\* main.py upload_pdf 363-383: save the file, create_job, add_task
submit(j) ==
    /\ p_pc = "none"
    /\ j \notin issued
    /\ issued' = issued \cup {j}
    /\ uploads' = uploads \cup {j}
    /\ create_job(j)
    /\ p_job' = j
    /\ p_pc' = "queued"
    /\ UNCHANGED <<outputs, clock, jobs_to_cleanup, cjob, cpc, cleaned>>
    /\ UNCHANGED <<elapsed, idx, translated_chunks, calls, p_error,
                   store_calls>>
    /\ UNCHANGED <<chunkVars, trVars>>
    /\ UNCHANGED <<auxVars, ioVars, loginVars, dlVars>>

\* main.py 170-197: start the clock, check it, look for the file, report
\* 10 % and call extract_text_from_pdf
process_start ==
    /\ p_pc = "queued"
    /\ elapsed' = 0
    /\ IF timed_out(0)
       THEN handle(<<"JobTimeoutError">>) /\ UNCHANGED calls
       ELSE IF p_job \notin uploads
       THEN handle(<<"Exception", "PDF not found">>) /\ UNCHANGED calls
       ELSE /\ update_job(p_job, 10, <<"Extracting text from PDF...">>)
            /\ calls' = Append(calls, "extract")
            /\ p_pc' = "extracting"
            /\ store_calls' = Append(store_calls, "update")
            /\ UNCHANGED p_error
    /\ PipelineStoreRest
    /\ UNCHANGED <<p_job, idx, translated_chunks>>
    /\ UNCHANGED <<chunkVars, trVars>>
    /\ UNCHANGED <<auxVars, ioVars, loginVars, dlVars>>

\* main.py 197: extract_text_from_pdf raises
extract_raises ==
    /\ p_pc = "extracting"
    /\ handle(<<"RuntimeError", "extraction failed">>)
    /\ PipelineStoreRest
    /\ UNCHANGED <<p_job, elapsed, idx, translated_chunks, calls>>
    /\ UNCHANGED <<chunkVars, trVars>>
    /\ UNCHANGED <<auxVars, ioVars, loginVars, dlVars>>

\* main.py 197-205: extract_text_from_pdf returns pgs
extract_returns(pgs) ==
    /\ p_pc = "extracting"
    /\ pages' = pgs
    /\ IF timed_out(elapsed)
       THEN handle(<<"JobTimeoutError">>)
       ELSE IF total_chars(pgs) < MIN_TOTAL_CHARS
       THEN handle(<<"PDFReadError",
                     "Extracted text too short - PDF may be corrupted or empty">>)
       ELSE /\ update_job(p_job, 30, <<"Extracted text from pages">>)
            /\ p_pc' = "chunk"
            /\ store_calls' = Append(store_calls, "update")
            /\ UNCHANGED p_error
    /\ PipelineStoreRest
    /\ UNCHANGED <<p_job, elapsed, idx, translated_chunks, calls>>
    /\ UNCHANGED <<max_words, chunk_out, chunk_pc>>
    /\ UNCHANGED trVars
    /\ UNCHANGED <<auxVars, ioVars, loginVars, dlVars>>

\* main.py 209-213: chunk_pages(pages), the clock check, 40 %
chunk_stage ==
    /\ p_pc = "chunk"
    /\ calls' = Append(calls, "chunk")
    /\ max_words' = PipelineMaxWords
    /\ chunk_out' = chunk_pages(pages, PipelineMaxWords)
    /\ IF chunk_out'.raised # ""
       THEN handle(<<"ChunkingError", chunk_out'.raised>>)
       ELSE IF timed_out(elapsed)
       THEN handle(<<"JobTimeoutError">>)
       ELSE /\ update_job(p_job, 40, <<"Processing chunks...">>)
            /\ p_pc' = "setup"
            /\ store_calls' = Append(store_calls, "update")
            /\ UNCHANGED p_error
    /\ PipelineStoreRest
    /\ UNCHANGED <<p_job, elapsed, idx, translated_chunks>>
    /\ UNCHANGED <<pages, chunk_pc>>
    /\ UNCHANGED trVars
    /\ UNCHANGED <<auxVars, ioVars, loginVars, dlVars>>

\* main.py 223-227 and translator.py 48-62: TranslatorService(...) raises
\* when it is not in mock mode and OPENAI_API_KEY is not set
translator_setup(key_set) ==
    /\ p_pc = "setup"
    /\ IF ~MOCK_TRANSLATION /\ ~key_set
       THEN /\ handle(<<"TranslationError", "OPENAI_API_KEY not found">>)
            /\ UNCHANGED idx
       ELSE /\ idx' = 1
            /\ p_pc' = "loop"
            /\ UNCHANGED <<JOB_STORE, disk, p_error, store_calls>>
    /\ PipelineStoreRest
    /\ UNCHANGED <<p_job, elapsed, translated_chunks, calls>>
    /\ UNCHANGED <<chunkVars, trVars>>
    /\ UNCHANGED <<auxVars, ioVars, loginVars, dlVars>>

\* main.py 233-239: the clock check, the progress report and the call of
\* translate_chunk for chunk idx
translate_next_chunk ==
    /\ p_pc = "loop"
    /\ IF timed_out(elapsed)
       THEN /\ handle(<<"JobTimeoutError">>)
            /\ UNCHANGED <<calls, trVars>>
            /\ UNCHANGED <<auxVars, ioVars, loginVars, dlVars>>
       ELSE /\ update_job(p_job,
                          chunk_progress(idx, Len(chunk_out.chunks)),
                          <<"Translating chunk...">>)
            /\ calls' = Append(calls, "translate")
            /\ translate_chunk(chunk_out.chunks[idx])
            /\ p_pc' = "translating"
            /\ store_calls' = Append(store_calls, "update")
            /\ UNCHANGED p_error
    /\ PipelineStoreRest
    /\ UNCHANGED <<p_job, elapsed, idx, translated_chunks>>
    /\ UNCHANGED chunkVars
    /\ UNCHANGED <<auxVars, ioVars, loginVars, dlVars>>

\* main.py 239-242: translate_chunk returned
translate_returns ==
    /\ p_pc = "translating"
    /\ t_pc = "returned"
    /\ translated_chunks' = Append(translated_chunks, t_result)
    /\ t_pc' = "idle"
    /\ IF loop_exhausted(idx, Len(chunk_out.chunks))
       THEN p_pc' = "render" /\ UNCHANGED idx
       ELSE p_pc' = "loop" /\ idx' = next_idx(idx)
    /\ UNCHANGED <<MOCK_TRANSLATION, max_retries, t_text, attempt, t_result,
                   t_error, api_log, sleeps>>
    /\ UNCHANGED <<p_job, elapsed, calls, p_error, store_calls>>
    /\ UNCHANGED <<storeVars, chunkVars>>
    /\ UNCHANGED <<auxVars, ioVars, loginVars, dlVars>>

\* main.py 239: translate_chunk raised its TranslationError
translate_raises ==
    /\ p_pc = "translating"
    /\ t_pc = "raised"
    /\ handle(<<"TranslationError">> \o t_error)
    /\ t_pc' = "idle"
    /\ PipelineStoreRest
    /\ UNCHANGED <<MOCK_TRANSLATION, max_retries, t_text, attempt, t_result,
                   t_error, api_log, sleeps>>
    /\ UNCHANGED <<p_job, elapsed, idx, translated_chunks, calls>>
    /\ UNCHANGED chunkVars
    /\ UNCHANGED <<auxVars, ioVars, loginVars, dlVars>>

\* main.py 246-254: 90 % and the call of create_pdf_from_text
render_start ==
    /\ p_pc = "render"
    /\ update_job(p_job, 90, <<"Generating translated PDF...">>)
    /\ calls' = Append(calls, "render")
    /\ p_pc' = "rendering"
    /\ PipelineStoreRest
    /\ store_calls' = Append(store_calls, "update")
    /\ UNCHANGED <<p_job, elapsed, idx, translated_chunks, p_error>>
    /\ UNCHANGED <<chunkVars, trVars>>
    /\ UNCHANGED <<auxVars, ioVars, loginVars, dlVars>>

\* main.py 250-258: create_pdf_from_text returned, complete_job
render_returns ==
    /\ p_pc = "rendering"
    /\ translated_chunks # <<>>
    /\ outputs' = outputs \cup {p_job}
    /\ complete_job(p_job)
    /\ store_calls' = Append(store_calls, "complete")
    /\ p_pc' = "done"
    /\ UNCHANGED <<uploads, issued, clock, jobs_to_cleanup, cjob, cpc, cleaned>>
    /\ UNCHANGED <<p_job, elapsed, idx, translated_chunks, calls, p_error>>
    /\ UNCHANGED <<chunkVars, trVars>>
    /\ UNCHANGED <<auxVars, ioVars, loginVars, dlVars>>

\* pdf_writer.py 48-103: create_pdf_from_text raises PDFWriteError
render_raises ==
    /\ p_pc = "rendering"
    /\ handle(<<"PDFWriteError", "PDF generation failed">>)
    /\ PipelineStoreRest
    /\ UNCHANGED <<p_job, elapsed, idx, translated_chunks, calls>>
    /\ UNCHANGED <<chunkVars, trVars>>
    /\ UNCHANGED <<auxVars, ioVars, loginVars, dlVars>>

\* the clock moves while an external call is in flight
time_passes ==
    /\ \/ p_pc \in {"extracting", "rendering"}
       \/ p_pc = "translating" /\ t_pc \in {"attempt", "sleeping"}
    /\ elapsed + TimeStep <= MaxElapsed
    /\ elapsed' = elapsed + TimeStep
    /\ UNCHANGED <<p_pc, p_job, idx, translated_chunks, calls, p_error,
                   store_calls>>
    /\ UNCHANGED <<storeVars, chunkVars, trVars>>
    /\ UNCHANGED <<auxVars, ioVars, loginVars, dlVars>>

(***************************************************************************)
(* SpecChunker: the extractor hands over any list of at most MaxPages      *)
(* pages of at most MaxPageLen characters, built a page and a character at *)
(* a time, or one page holding a document of at most MaxParas paragraphs   *)
(* of at most MaxParaWords words, and chunk_pages is called on it with any *)
(* max_words in 1..MaxWordsArg.                                            *)
(***************************************************************************)
\* a paragraph of n words
Paragraph(n) == join([i \in 1..n |-> <<"x">>], <<" ">>)

\* the text of a document whose paragraphs have the given numbers of words
Document(counts) ==
    join([i \in 1..Len(counts) |-> Paragraph(counts[i])], ParaSep)

ParagraphCounts ==
    UNION {[1..n -> 1..MaxParaWords] : n \in 1..MaxParas}

\* the extractor hands over a paragraph-separated document as one page
extract_document(counts) ==
    /\ chunk_pc = "input"
    /\ pages = <<>>
    /\ pages' = <<Document(counts)>>
    /\ chunk_pc' = "document"
    /\ UNCHANGED <<max_words, chunk_out>>
    /\ UNCHANGED <<storeVars, trVars, pipeVars>>
    /\ UNCHANGED <<auxVars, ioVars, loginVars, dlVars>>

extract_page ==
    /\ chunk_pc = "input"
    /\ Len(pages) < MaxPages
    /\ pages' = Append(pages, <<>>)
    /\ UNCHANGED <<max_words, chunk_out, chunk_pc>>
    /\ UNCHANGED <<storeVars, trVars, pipeVars>>
    /\ UNCHANGED <<auxVars, ioVars, loginVars, dlVars>>

extract_char(c) ==
    /\ chunk_pc = "input"
    /\ pages # <<>>
    /\ Len(pages[Len(pages)]) < MaxPageLen
    /\ pages' = [pages EXCEPT ![Len(pages)] = Append(@, c)]
    /\ UNCHANGED <<max_words, chunk_out, chunk_pc>>
    /\ UNCHANGED <<storeVars, trVars, pipeVars>>
    /\ UNCHANGED <<auxVars, ioVars, loginVars, dlVars>>

call_chunk_pages(mw) ==
    /\ chunk_pc \in {"input", "document"}
    /\ max_words' = mw
    /\ chunk_out' = chunk_pages(pages, mw)
    /\ chunk_pc' = "done"
    /\ UNCHANGED pages
    /\ UNCHANGED <<storeVars, trVars, pipeVars>>
    /\ UNCHANGED <<auxVars, ioVars, loginVars, dlVars>>

InitChunker ==
    /\ StoreInit
    /\ TranslateIdle
    /\ PipelineIdle
    /\ pages = <<>>
    /\ max_words = 0
    /\ chunk_out = [raised |-> "", chunks |-> <<>>]
    /\ chunk_pc = "input"

NextChunker ==
    \/ extract_page
    \/ \E c \in Chars : extract_char(c)
    \/ \E counts \in ParagraphCounts : extract_document(counts)
    \/ \E mw \in 1..MaxWordsArg : call_chunk_pages(mw)

SpecChunker == InitChunker /\ [][NextChunker]_vars

(***************************************************************************)
(* SpecTranslate: one translate_chunk call on any text, by a service built *)
(* with any max_retries in 1..MaxRetriesArg, in mock mode or not.          *)
(***************************************************************************)
Call_translate_chunk(text) ==
    /\ t_pc = "idle"
    /\ translate_chunk(text)
    /\ UNCHANGED <<storeVars, chunkVars, pipeVars>>
    /\ UNCHANGED <<auxVars, ioVars, loginVars, dlVars>>

InitTranslate ==
    /\ StoreInit
    /\ ChunkIdle
    /\ PipelineIdle
    /\ MOCK_TRANSLATION \in BOOLEAN
    /\ max_retries \in 1..MaxRetriesArg
    /\ t_text = <<>>
    /\ attempt = 0
    /\ t_pc = "idle"
    /\ t_result = <<>>
    /\ t_error = <<>>
    /\ api_log = <<>>
    /\ sleeps = <<>>

NextTranslate ==
    \/ \E text \in TextArgs : Call_translate_chunk(text)
    \/ \E o \in ApiOutcomes : api_attempt(o)
    \/ sleep_done

SpecTranslate == InitTranslate /\ [][NextTranslate]_vars

(***************************************************************************)
(* SpecPipeline: one upload and its background task, alone on its job.     *)
(***************************************************************************)
InitPipeline ==
    /\ StoreInit
    /\ ChunkIdle
    /\ PipelineIdle
    /\ MOCK_TRANSLATION \in BOOLEAN
    /\ max_retries = DEFAULT_MAX_RETRIES
    /\ t_text = <<>>
    /\ attempt = 0
    /\ t_pc = "idle"
    /\ t_result = <<>>
    /\ t_error = <<>>
    /\ api_log = <<>>
    /\ sleeps = <<>>

NextPipeline ==
    \/ \E j \in JobIds : submit(j)
    \/ process_start
    \/ extract_raises
    \/ \E pgs \in SamplePages : extract_returns(pgs)
    \/ chunk_stage
    \/ \E key_set \in BOOLEAN : translator_setup(key_set)
    \/ translate_next_chunk
    \/ \E o \in ApiOutcomes : api_attempt(o)
    \/ sleep_done
    \/ translate_returns
    \/ translate_raises
    \/ render_start
    \/ render_returns
    \/ render_raises
    \/ time_passes

SpecPipeline == InitPipeline /\ [][NextPipeline]_vars

\* the steps of process_translation_job and the end of its external calls:
\* the worker thread keeps running, and every call of the extractor, the
\* API, time.sleep and the renderer returns or raises
JobStep ==
    \/ process_start
    \/ extract_raises
    \/ \E pgs \in SamplePages : extract_returns(pgs)
    \/ chunk_stage
    \/ \E key_set \in BOOLEAN : translator_setup(key_set)
    \/ translate_next_chunk
    \/ \E o \in ApiOutcomes : api_attempt(o)
    \/ sleep_done
    \/ translate_returns
    \/ translate_raises
    \/ render_start
    \/ render_returns
    \/ render_raises

SpecPipelineLive == InitPipeline /\ [][NextPipeline]_vars /\ WF_vars(JobStep)

(***************************************************************************)
(* Spec: the job store, its callers and the sweep thread.                  *)
(***************************************************************************)
Init == StoreInit /\ ChunkIdle /\ TranslateIdle /\ PipelineIdle

Next ==
    \/ \E j \in JobIds : upload_pdf(j)
    \/ \E j \in CallIds, p \in Progresses, m \in Messages :
          Call_update_job(j, p, m)
    \/ \E j \in CallIds : Call_complete_job(j)
    \/ \E j \in CallIds, m \in Messages : Call_fail_job(j, m)
    \/ \E j \in CallIds : Call_mark_downloaded(j)
    \/ \E j \in JobIds : Call_get_job(j)
    \/ \E j \in JobIds : write_output(j)
    \/ Tick
    \/ cleanup_old_jobs
    \/ schedule_next_rearm
    \/ cleanup_job_files_call
    \/ cleanup_remove_original(FALSE)
    \/ cleanup_remove_translated(FALSE)
    \/ cleanup_remove_metadata(FALSE)
    \/ cleanup_remove_memory
    \/ restart

Spec == Init /\ [][Next]_vars

(***************************************************************************)
(* SpecStoreIO: the job store one statement at a time.  A store operation  *)
(* takes _lock, runs its dict assignments in source order, saves the       *)
(* record with open(path, 'w') and json.dump, and releases the lock.       *)
(* get_status takes the lock only inside get_job and then reads the dict   *)
(* it was handed.  open and json.dump may raise (the except clause of      *)
(* _save_job_to_disk logs it), and the process may crash at any statement  *)
(* and be restarted on the same uploads/.jobs directory.                   *)
(***************************************************************************)
StoreOps == {"update_job", "complete_job", "fail_job", "mark_downloaded"}

\* the dict assignments of an operation, in source order; "*" is the
\* assignment of a whole new dict (job.py 101-108)
FieldWrites(name, progress, message, now) ==
    IF name = "create_job" THEN <<<<"*", NewJob(now)>>>>
    ELSE IF name = "update_job"
    THEN <<<<"progress", progress>>, <<"message", message>>>>
    ELSE IF name = "complete_job"
    THEN <<<<"status", "completed">>, <<"progress", 100>>,
           <<"message", <<"Translation completed successfully">>>>,
           <<"completed_at", <<now>>>>>>
    ELSE IF name = "fail_job"
    THEN <<<<"status", "failed">>, <<"message", message>>,
           <<"failed_at", <<now>>>>>>
    ELSE <<<<"downloaded", TRUE>>>>

Assign(store, j, w) ==
    IF w[1] = "*" THEN Put(store, j, w[2])
    ELSE [store EXCEPT ![j] = [@ EXCEPT ![w[1]] = w[2]]]

RECURSIVE ApplyAll(_, _, _)
ApplyAll(store, j, todo) ==
    IF todo = <<>> THEN store
    ELSE ApplyAll(Assign(store, j, Head(todo)), j, Tail(todo))

\* what get_status returns (main.py 413-415)
View(job) == <<job.status, job.progress, job.message>>

StatusFields == <<"status", "progress", "message">>

IoRest ==
    /\ UNCHANGED <<outputs, clock, jobs_to_cleanup, cjob, cpc, cleaned>>
    /\ UNCHANGED <<chunkVars, trVars, pipeVars, auxVars, loginVars, dlVars>>

\* a caller enters a store operation and gets _lock
store_begin(name, j, progress, message) ==
    /\ w_pc = "idle"
    /\ ops_done < MaxOps
    /\ acquire("store")
    /\ lock' = "store"
    /\ IF name = "create_job" THEN j \notin issued ELSE j \in DOMAIN JOB_STORE
    /\ issued' = issued \cup {j}
    /\ uploads' = IF name = "create_job" THEN uploads \cup {j} ELSE uploads
    /\ w_pc' = "assign"
    /\ w_op' = [name |-> name, job |-> j]
    /\ w_todo' = FieldWrites(name, progress, message, clock)
    /\ pending' = Put(<<>>, j, ApplyAll(JOB_STORE, j, w_todo')[j])
    /\ committed' = IF crashed THEN JOB_STORE ELSE committed
    /\ crashed' = FALSE
    /\ ops_done' = ops_done + 1
    /\ UNCHANGED <<JOB_STORE, disk, r_pc, r_job, r_seen, history>>
    /\ IoRest

\* one dict assignment of the operation
store_assign ==
    /\ w_pc = "assign"
    /\ JOB_STORE' = Assign(JOB_STORE, w_op.job, Head(w_todo))
    /\ w_todo' = Tail(w_todo)
    /\ w_pc' = IF w_todo' = <<>> THEN "open" ELSE "assign"
    /\ UNCHANGED <<disk, uploads, issued, w_op, r_pc, r_job, r_seen, history,
                   committed, pending, crashed, ops_done>>
    /\ UNCHANGED lock
    /\ IoRest

\* job.py 52: open(path, 'w') empties the file, or raises
save_open(raises) ==
    /\ w_pc = "open"
    /\ disk' = IF raises THEN disk ELSE Put(disk, w_op.job, Truncated)
    /\ w_pc' = IF raises THEN "release" ELSE "dump"
    /\ UNCHANGED <<JOB_STORE, uploads, issued, w_op, w_todo, r_pc, r_job,
                   r_seen, history, committed, pending, crashed, ops_done>>
    /\ UNCHANGED lock
    /\ IoRest

\* job.py 53: json.dump writes the record, or raises
save_dump(raises) ==
    /\ w_pc = "dump"
    /\ disk' = IF raises THEN disk ELSE SavedDisk(JOB_STORE, disk, w_op.job)
    /\ w_pc' = "release"
    /\ UNCHANGED <<JOB_STORE, uploads, issued, w_op, w_todo, r_pc, r_job,
                   r_seen, history, committed, pending, crashed, ops_done>>
    /\ UNCHANGED lock
    /\ IoRest

\* the with block ends: the lock is released and the operation returns
store_return ==
    /\ w_pc = "release"
    /\ w_pc' = "idle"
    /\ lock' = "free"
    /\ w_op' = [name |-> "none", job |-> 0]
    /\ committed' = LoadAll(disk)
    /\ pending' = <<>>
    /\ history' = IF r_pc # "idle" /\ r_job = w_op.job
                  THEN history \cup {View(JOB_STORE[w_op.job])}
                  ELSE history
    /\ UNCHANGED <<JOB_STORE, disk, uploads, issued, w_todo, r_pc, r_job,
                   r_seen, crashed, ops_done>>
    /\ IoRest

\* main.py 407: get_status calls get_job, which runs under _lock
status_get_job(j) ==
    /\ r_pc = "idle"
    /\ acquire("status")
    /\ UNCHANGED lock
    /\ get_job(j)
    /\ j \in DOMAIN JOB_STORE'
    /\ r_pc' = "status"
    /\ r_job' = j
    /\ r_seen' = <<>>
    /\ history' = {View(JOB_STORE'[j])}
    /\ UNCHANGED <<uploads, issued, w_pc, w_op, w_todo, committed, pending,
                   crashed, ops_done>>
    /\ IoRest

\* main.py 413-415: job["status"], job["progress"], job["message"], read
\* from the dict get_job returned, without the lock
status_read ==
    /\ r_pc \in {"status", "progress", "message"}
    /\ r_job \in DOMAIN JOB_STORE
    /\ r_seen' = Append(r_seen, JOB_STORE[r_job][r_pc])
    /\ r_pc' = IF Len(r_seen') = Len(StatusFields) THEN "returned"
               ELSE StatusFields[Len(r_seen') + 1]
    /\ UNCHANGED <<JOB_STORE, disk, uploads, issued, w_pc, w_op, w_todo,
                   r_job, history, committed, pending, crashed, ops_done>>
    /\ UNCHANGED lock
    /\ IoRest

status_done ==
    /\ r_pc = "returned"
    /\ r_pc' = "idle"
    /\ r_job' = 0
    /\ r_seen' = <<>>
    /\ history' = {}
    /\ UNCHANGED <<JOB_STORE, disk, uploads, issued, w_pc, w_op, w_todo,
                   committed, pending, crashed, ops_done>>
    /\ UNCHANGED lock
    /\ IoRest

\* the process dies at any statement; the new process imports job.py, which
\* runs _load_all_jobs_from_disk (job.py 95)
crash_restart ==
    /\ ~crashed
    /\ committed # <<>>
    /\ JOB_STORE' = LoadAll(disk)
    /\ w_pc' = "idle"
    /\ w_op' = [name |-> "none", job |-> 0]
    /\ w_todo' = <<>>
    /\ r_pc' = "idle"
    /\ r_job' = 0
    /\ r_seen' = <<>>
    /\ history' = {}
    /\ crashed' = TRUE
    /\ lock' = "free"
    /\ UNCHANGED <<disk, uploads, issued, committed, pending, ops_done>>
    /\ IoRest

InitStoreIO == StoreInit /\ ChunkIdle /\ TranslateIdle /\ PipelineIdle

NextStoreIO ==
    \/ \E j \in JobIds : store_begin("create_job", j, 0, <<"Job created">>)
    \/ \E name \in StoreOps, j \in JobIds, p \in Progresses, m \in Messages :
          store_begin(name, j, p, m)
    \/ store_assign
    \/ \E raises \in BOOLEAN : save_open(raises)
    \/ \E raises \in BOOLEAN : save_dump(raises)
    \/ store_return
    \/ \E j \in JobIds : status_get_job(j)
    \/ status_read
    \/ status_done
    \/ crash_restart

SpecStoreIO == InitStoreIO /\ [][NextStoreIO]_vars

(***************************************************************************)
(* SpecSweep: the sweep thread alone, on any store of at most MaxSweepJobs *)
(* jobs of any status and age whose upload and output files exist or not.  *)
(* os.remove may raise, and cleanup_job_files may be called again for a    *)
(* job it has already cleaned.                                             *)
(***************************************************************************)
SweepIds == 1..MaxSweepJobs

SweepRecords ==
    UNION {{NewJob(t),
            CompletedJob(UpdatedJob(NewJob(t), 90, <<"m1">>), t),
            FailedJob(UpdatedJob(NewJob(t), 10, <<"m1">>), <<"m2">>, t)} :
           t \in 0..(MaxClock - 2)}

\* a second cleanup_job_files(j) for a job already cleaned
cleanup_job_files_again(j) ==
    /\ cpc = "idle"
    /\ j \in cleaned
    /\ cjob' = j
    /\ cpc' = "original"
    /\ UNCHANGED <<JOB_STORE, disk, uploads, outputs, issued, clock,
                   jobs_to_cleanup, cleaned>>
    /\ UNCHANGED <<chunkVars, trVars, pipeVars, auxVars, ioVars, loginVars, dlVars>>

InitSweep ==
    /\ JOB_STORE \in UNION {[S -> SweepRecords] : S \in SUBSET SweepIds}
    /\ disk = [j \in DOMAIN JOB_STORE |-> data_to_save(JOB_STORE[j])]
    /\ uploads \in SUBSET (DOMAIN JOB_STORE)
    /\ outputs \in SUBSET (DOMAIN JOB_STORE)
    /\ issued = DOMAIN JOB_STORE
    /\ clock = MaxClock - 2
    /\ jobs_to_cleanup = {}
    /\ cjob = 0
    /\ cpc = "idle"
    /\ cleaned = {}
    /\ AuxIdle
    /\ IoIdle
    /\ LoginIdle
    /\ DownloadIdle
    /\ ChunkIdle
    /\ TranslateIdle
    /\ PipelineIdle

NextSweep ==
    \/ Tick
    \/ cleanup_old_jobs
    \/ schedule_next_rearm
    \/ cleanup_job_files_call
    \/ \E oserror \in BOOLEAN : cleanup_remove_original(oserror)
    \/ \E oserror \in BOOLEAN : cleanup_remove_translated(oserror)
    \/ \E oserror \in BOOLEAN : cleanup_remove_metadata(oserror)
    \/ cleanup_remove_memory
    \/ \E j \in SweepIds : cleanup_job_files_again(j)

SpecSweep == InitSweep /\ [][NextSweep]_vars

\* The steps of the sweep thread.  schedule_next runs on a threading.Timer
\* thread: once the timer is due the thread runs cleanup_old_jobs to its end
\* and then starts the next timer (job.py 230-233), so the thread takes its
\* next step whenever it has one.
schedule_next ==
    \/ cleanup_old_jobs
    \/ cleanup_job_files_call
    \/ \E oserror \in BOOLEAN : cleanup_remove_original(oserror)
    \/ \E oserror \in BOOLEAN : cleanup_remove_translated(oserror)
    \/ \E oserror \in BOOLEAN : cleanup_remove_metadata(oserror)
    \/ cleanup_remove_memory
    \/ schedule_next_rearm

\* cleanup_job_files has no caller but the sweep (job.py 225), so the
\* process runs the sweep thread while time passes
NextSweepLive ==
    \/ Tick
    \/ schedule_next

SpecSweepLive ==
    InitSweep /\ [][NextSweepLive]_vars /\ WF_vars(schedule_next)

(***************************************************************************)
(* SpecLock: the threads that use _lock, side by side.  The worker thread  *)
(* of process_translation_job alternates store operations, run one         *)
(* statement at a time from the acquisition of _lock to its release, and   *)
(* external calls (extract, translate, render); status requests call       *)
(* get_job and read the dict; the sweep thread runs cleanup_old_jobs and   *)
(* cleanup_job_files.  The jobs are older than CLEANUP_AFTER_HOURS.         *)
(***************************************************************************)
\* the positions of process_translation_job at which extract_text_from_pdf
\* (main.py 197), translate_chunk (239) or create_pdf_from_text (250) is in
\* flight
ExternalCalls == {"extracting", "translating", "rendering"}

\* main.py 193, 205, 213, 237, 246, 257, 262-274: the worker calls a store
\* operation; it is one thread, so it is not inside an external call
worker_store_begin(name, j, progress, message) ==
    /\ p_pc \notin ExternalCalls
    /\ ops_done < MaxLockOps
    /\ store_begin(name, j, progress, message)

\* main.py 197, 239, 250: the worker starts an external call, its last store
\* operation having returned
call_stage(stage) ==
    /\ p_pc = "local"
    /\ w_pc = "idle"
    /\ p_pc' = stage
    /\ UNCHANGED <<p_job, elapsed, idx, translated_chunks, calls, p_error,
                   store_calls>>
    /\ UNCHANGED <<storeVars, chunkVars, trVars, auxVars, ioVars, loginVars, dlVars>>

\* the external call returns or raises
stage_ends ==
    /\ p_pc \in ExternalCalls
    /\ p_pc' = "local"
    /\ UNCHANGED <<p_job, elapsed, idx, translated_chunks, calls, p_error,
                   store_calls>>
    /\ UNCHANGED <<storeVars, chunkVars, trVars, auxVars, ioVars, loginVars, dlVars>>

\* main.py 413-415 when cleanup_job_files has deleted the entry meanwhile:
\* the request goes on reading the dict it holds, which is no longer in
\* JOB_STORE
status_read_detached ==
    /\ r_pc \in {"status", "progress", "message"}
    /\ r_job \notin DOMAIN JOB_STORE
    /\ r_pc' = "idle"
    /\ r_job' = 0
    /\ r_seen' = <<>>
    /\ history' = {}
    /\ UNCHANGED <<JOB_STORE, disk, uploads, issued, w_pc, w_op, w_todo,
                   committed, pending, crashed, ops_done, lock>>
    /\ IoRest

InitLock ==
    /\ JOB_STORE = [j \in JobIds |-> NewJob(0)]
    /\ disk = [j \in JobIds |-> data_to_save(JOB_STORE[j])]
    /\ uploads = JobIds
    /\ outputs = {}
    /\ issued = JobIds
    /\ clock = CLEANUP_AFTER_HOURS + 1
    /\ jobs_to_cleanup = {}
    /\ cjob = 0
    /\ cpc = "idle"
    /\ cleaned = {}
    /\ AuxIdle
    /\ IoIdle
    /\ LoginIdle
    /\ DownloadIdle
    /\ ChunkIdle
    /\ TranslateIdle
    /\ p_pc = "local"
    /\ p_job = 0
    /\ elapsed = 0
    /\ idx = 0
    /\ translated_chunks = <<>>
    /\ calls = <<>>
    /\ p_error = <<>>
    /\ store_calls = <<>>

NextLock ==
    \/ \E name \in StoreOps, j \in JobIds, p \in Progresses, m \in Messages :
          worker_store_begin(name, j, p, m)
    \/ store_assign
    \/ \E raises \in BOOLEAN : save_open(raises)
    \/ \E raises \in BOOLEAN : save_dump(raises)
    \/ store_return
    \/ \E stage \in ExternalCalls : call_stage(stage)
    \/ stage_ends
    \/ \E j \in JobIds : status_get_job(j)
    \/ status_read
    \/ status_read_detached
    \/ status_done
    \/ cleanup_old_jobs
    \/ schedule_next_rearm
    \/ cleanup_job_files_call
    \/ cleanup_remove_original(FALSE)
    \/ cleanup_remove_translated(FALSE)
    \/ cleanup_remove_metadata(FALSE)
    \/ cleanup_remove_memory

SpecLock == InitLock /\ [][NextLock]_vars

(***************************************************************************)
(* Claims about the job store, checked under Spec.                         *)
(***************************************************************************)

\* C1: once a job is terminal (completed or failed), update_job(id,
\* progress, message) is a no-op: the job's progress and message, in memory
\* and in the persisted record, are what they were before the call.
C1_UpdateOnTerminalIsNoOp ==
    [][\A j \in JobIds, p \in Progresses, m \in Messages :
          (/\ j \in DOMAIN JOB_STORE
           /\ Terminal(JOB_STORE[j])
           /\ Call_update_job(j, p, m))
          => /\ JOB_STORE'[j].progress = JOB_STORE[j].progress
             /\ JOB_STORE'[j].message = JOB_STORE[j].message
             /\ disk' = disk]_vars

\* C2: terminal states are absorbing: a job whose status is completed or
\* failed keeps that status for as long as its record exists, whatever
\* update/complete/fail/mark_downloaded call comes next.
C2_TerminalStatusAbsorbing ==
    [][\A j \in JobIds :
          (/\ j \in DOMAIN JOB_STORE
           /\ Terminal(JOB_STORE[j])
           /\ j \in DOMAIN JOB_STORE')
          => JOB_STORE'[j].status = JOB_STORE[j].status]_vars

\* C10: after cleanup_job_files(id) has returned, the job has no in-memory
\* record, no persisted metadata record and no artifact files, whatever
\* store operations ran on that id while the cleanup was in progress.
C10_CleanedJobIsGone ==
    \A j \in cleaned :
        /\ j \notin DOMAIN JOB_STORE
        /\ j \notin DOMAIN disk
        /\ j \notin uploads
        /\ j \notin outputs

\* what get_job(j) returns: <<record>>, or <<>> for None (job.py 148-161)
get_job_result(j) ==
    IF j \in DOMAIN JOB_STORE THEN <<JOB_STORE[j]>>
    ELSE IF j \in DOMAIN disk /\ Readable(disk[j])
    THEN <<loaded_data(disk[j])>>
    ELSE <<>>

C20_DownloadSchedulesCleanup ==
    [][\A j \in JobIds :
          (j \in DOMAIN JOB_STORE /\ Call_mark_downloaded(j))
          => \E t \in timers' : t.target = "cleanup_job_files" /\ t.job = j]_vars

\* C23: after complete_job(id) on an existing job that is not terminal, the
\* job's status is completed, its progress is 100 and completed_at is set
\* (to the time of the call), whatever progress and message it held.
C23_CompleteSetsTerminalFields ==
    [][\A j \in JobIds :
          (/\ j \in DOMAIN JOB_STORE
           /\ ~Terminal(JOB_STORE[j])
           /\ Call_complete_job(j))
          => /\ JOB_STORE'[j].status = "completed"
             /\ JOB_STORE'[j].progress = 100
             /\ JOB_STORE'[j].completed_at = <<clock>>]_vars

C23_Witness ==
    \E j \in DOMAIN JOB_STORE :
        /\ JOB_STORE[j].status = "completed"
        /\ JOB_STORE[j].progress = 100
        /\ JOB_STORE[j].completed_at = <<clock>>
        /\ JOB_STORE[j].failed_at = <<>>
        /\ clock > JOB_STORE[j].created_at[1]

\* C24: after fail_job(id, m) on an existing job that is not terminal, the
\* job's status is failed, its message is m and failed_at is set (to the
\* time of the call), and its progress is the one it held before the call.
C24_FailKeepsProgress ==
    [][\A j \in JobIds, m \in Messages :
          (/\ j \in DOMAIN JOB_STORE
           /\ ~Terminal(JOB_STORE[j])
           /\ Call_fail_job(j, m))
          => /\ JOB_STORE'[j].status = "failed"
             /\ JOB_STORE'[j].message = m
             /\ JOB_STORE'[j].failed_at = <<clock>>
             /\ JOB_STORE'[j].progress = JOB_STORE[j].progress]_vars

C24_Witness ==
    \E j \in DOMAIN JOB_STORE :
        /\ JOB_STORE[j].status = "failed"
        /\ JOB_STORE[j].progress = 90
        /\ JOB_STORE[j].message = <<"m2">>
        /\ JOB_STORE[j].failed_at = <<clock>>
        /\ JOB_STORE[j].completed_at = <<>>

\* the id has no record, in memory or on disk
NoRecord(j) == j \notin DOMAIN JOB_STORE /\ j \notin DOMAIN disk

\* C25: update_job, complete_job, fail_job and mark_downloaded called with
\* an id that has no record (never created, or cleaned up) create no record
\* for it, in memory or on disk, and change no existing record.
C25_UnknownIdIsNoOp ==
    [][\A j \in CallIds :
          (/\ NoRecord(j)
           /\ \/ \E p \in Progresses, m \in Messages : Call_update_job(j, p, m)
              \/ Call_complete_job(j)
              \/ \E m \in Messages : Call_fail_job(j, m)
              \/ Call_mark_downloaded(j))
          => UNCHANGED <<JOB_STORE, disk>>]_vars

C25_Witness ==
    \E j \in CallIds, k \in DOMAIN JOB_STORE :
        /\ NoRecord(j)
        /\ j \notin issued
        /\ k \in DOMAIN disk
        /\ JOB_STORE[k].status = "completed"
        /\ JOB_STORE[k].downloaded

(***************************************************************************)
(* Claims about the job store's statements, checked under SpecStoreIO.     *)
(***************************************************************************)

\* C11: get returns a snapshot: what a status request reports (status,
\* progress, message) is the job's record as it stood between two whole
\* store operations, at some moment from the return of get_job on; a
\* reader never reports a mix of fields from before and after an operation.
C11_ReaderSeesCommittedRecord ==
    r_pc = "returned" => r_seen \in history

\* C12: crash atomicity: after a crash and restart, every job that had a
\* readable record on disk when the last completed operation returned is
\* loaded again, and its record is that one or the one the interrupted
\* operation was writing.
C12_CrashKeepsCommittedRecord ==
    crashed
    => \A j \in DOMAIN committed :
          /\ j \in DOMAIN JOB_STORE
          /\ \/ JOB_STORE[j] = committed[j]
             \/ j \in DOMAIN pending /\ JOB_STORE[j] = pending[j]

\* C13: durability: when a mutating store operation returns, the metadata
\* file of its job holds the in-memory record of that job, field for field.
C13_ReturnMeansPersisted ==
    [][(w_pc = "release" /\ w_pc' = "idle" /\ ~crashed')
       => /\ w_op.job \in DOMAIN disk'
          /\ Readable(disk'[w_op.job])
          /\ loaded_data(disk'[w_op.job]) = JOB_STORE'[w_op.job]]_vars

(***************************************************************************)
(* Claims about _lock, checked under SpecLock.                             *)
(***************************************************************************)

\* C21: every read and every write of the job map and of the persisted job
\* records is made while holding _lock: so while a thread holds the lock,
\* no step of another thread changes JOB_STORE or a metadata file, and no
\* other thread reads a field of a record.
C21_AccessOnlyUnderLock ==
    [][(lock = "store" /\ lock' = "store" /\ w_pc' = w_pc /\ w_todo' = w_todo)
       => /\ UNCHANGED <<JOB_STORE, disk>>
          /\ r_seen' = r_seen]_vars

\* a step of the thread that runs the store operation, which holds the lock
StoreStep ==
    \/ store_assign
    \/ \E raises \in BOOLEAN : save_open(raises)
    \/ \E raises \in BOOLEAN : save_dump(raises)
    \/ store_return

\* a step of the sweep thread
SweepStep ==
    \/ cleanup_job_files_call
    \/ cleanup_remove_original(FALSE)
    \/ cleanup_remove_translated(FALSE)
    \/ cleanup_remove_metadata(FALSE)
    \/ cleanup_remove_memory
    \/ schedule_next_rearm

\* C22: _lock is held only around a local record read or write: it is not
\* held by the worker while an extract, translate or render call is in
\* flight; no thread reaches a "with _lock" while holding the lock (the
\* sweep thread runs cleanup_job_files without it); and whenever the lock
\* is held its holder can take its next step, so that the lock is released
\* and no interleaving of workers, readers and sweeps deadlocks on it.
C22_LockHeldOnlyAroundRecordAccess ==
    /\ p_pc \in ExternalCalls => lock # "store"
    /\ lock = "store" <=> w_pc # "idle"
    /\ cpc # "idle" => lock # "sweep"
    /\ lock = "store" => ENABLED StoreStep
    /\ lock = "sweep" => ENABLED SweepStep

C22_Witness ==
    /\ p_pc = "translating"
    /\ cpc = "memory"
    /\ r_pc = "progress"
    /\ lock = "free"
    /\ ops_done >= 2

(***************************************************************************)
(* Claims about the sweep, checked under SpecSweep.                        *)
(***************************************************************************)
Gone(j) ==
    /\ j \notin DOMAIN JOB_STORE
    /\ j \notin DOMAIN disk
    /\ j \notin uploads
    /\ j \notin outputs

\* job j is older than the retention threshold at time now
OlderThanRetention(j, now) ==
    now - JOB_STORE[j].created_at[1] > CLEANUP_AFTER_HOURS

\* nothing of job j changes in this step
JobUntouched(j) ==
    /\ j \in DOMAIN JOB_STORE' /\ JOB_STORE'[j] = JOB_STORE[j]
    /\ (j \in DOMAIN disk) = (j \in DOMAIN disk')
    /\ j \in DOMAIN disk => disk'[j] = disk[j]
    /\ (j \in uploads) = (j \in uploads')
    /\ (j \in outputs) = (j \in outputs')

\* C18: a sweep selects exactly the jobs whose created_at is older than
\* now - CLEANUP_AFTER_HOURS, whatever their status; when it has gone
\* through its list, every selected job whose removals did not fail has no
\* upload file, no output file, no metadata file and no in-memory record;
\* and no step changes anything of a job that is not older than the
\* threshold.
C18_SweepRemovesOldJobsOnly ==
    /\ [][(PeriodicTimer \in timers /\ PeriodicTimer \notin timers')
          => jobs_to_cleanup' =
                {j \in DOMAIN JOB_STORE : OlderThanRetention(j, clock)}]_vars
    /\ []((jobs_to_cleanup = {} /\ cpc = "idle")
          => \A j \in swept : j \notin remove_failed => Gone(j))
    /\ [][\A j \in DOMAIN JOB_STORE :
             ~OlderThanRetention(j, clock) => JobUntouched(j)]_vars

C18_Witness ==
    /\ jobs_to_cleanup = {}
    /\ cpc = "idle"
    /\ \E j \in swept : j \in cleaned /\ j \notin remove_failed /\ Gone(j)
    /\ \E k \in DOMAIN JOB_STORE :
          /\ ~OlderThanRetention(k, clock)
          /\ JOB_STORE[k].status = "completed"
          /\ k \in uploads /\ k \in outputs /\ k \in DOMAIN disk

\* C19: cleanup_job_files never raises to its caller, whichever of the
\* job's files and records are absent and whether or not os.remove fails;
\* and cleaning a job again after a cleanup that removed everything
\* changes nothing.
C19_CleanupBestEffortIdempotent ==
    /\ [](cpc # "raised")
    /\ [][(cpc # "idle" /\ cjob \in cleaned /\ cjob \notin remove_failed)
          => UNCHANGED <<JOB_STORE, disk, uploads, outputs>>]_vars

C19_Witness ==
    /\ cpc = "memory"
    /\ cjob \in cleaned
    /\ cjob \notin remove_failed
    /\ Gone(cjob)
    /\ \E j \in cleaned \cap remove_failed :
          /\ j \notin DOMAIN JOB_STORE
          /\ j \in uploads
          /\ j \notin DOMAIN disk

\* C35: while the process lives the sweep keeps recurring: a sweep that has
\* started is followed by the start of the next timer, and every job in the
\* store that is older than the retention threshold is eventually removed
\* from the store, with its files when their removal does not fail.
C35_SweepRecursAndRemoves ==
    /\ (PeriodicTimer \notin timers) ~> (PeriodicTimer \in timers)
    /\ \A j \in SweepIds :
          (j \in DOMAIN JOB_STORE /\ OlderThanRetention(j, clock))
             ~> (j \notin DOMAIN JOB_STORE
                   /\ (j \notin remove_failed => Gone(j)))

C35_Witness ==
    /\ PeriodicTimer \in timers
    /\ cpc = "idle"
    /\ swept = SweepIds
    /\ \E j \in swept : j \in remove_failed /\ j \notin DOMAIN JOB_STORE
    /\ \E j \in swept : j \notin remove_failed /\ Gone(j)

(***************************************************************************)
(* Claims about chunk_pages, checked under SpecChunker.                    *)
(***************************************************************************)
RECURSIVE AllWords(_)
AllWords(texts) ==
    IF texts = <<>> THEN <<>>
    ELSE split_words(Head(texts)) \o AllWords(Tail(texts))

SomePageHasWord == \E i \in 1..Len(pages) : NonBlank(pages[i])

\* C3: chunk_pages is lossless and order-preserving: for a page list with
\* at least one non-blank page, the words of the returned chunks, in chunk
\* order, are the words of the pages, in page order.
C3_ChunksKeepWordsInOrder ==
    (chunk_pc = "done" /\ SomePageHasWord)
    => /\ chunk_out.raised = ""
       /\ AllWords(chunk_out.chunks) = AllWords(pages)

\* the number of words of a text
WordCount(text) == Len(split_words(text))

\* C26: no chunk returned by chunk_pages(pages, max_words) has more than
\* max_words words, whatever the pages and for every max_words >= 1.
C26_NoChunkExceedsMaxWords ==
    chunk_pc = "done"
    => \A i \in 1..Len(chunk_out.chunks) :
          WordCount(chunk_out.chunks[i]) <= max_words

C26_Witness ==
    /\ chunk_pc = "done"
    /\ max_words = 2
    /\ \E i \in 1..Len(pages) : WordCount(pages[i]) = 5
    /\ Len(chunk_out.chunks) = 3
    /\ WordCount(chunk_out.chunks[1]) = 2
    /\ WordCount(chunk_out.chunks[3]) = 1

\* C27: chunk_pages raises ChunkingError and returns no chunk when the page
\* list is empty or every page is empty or whitespace only, and it does not
\* raise when some page holds a word.
C27_RaisesExactlyOnNoText ==
    chunk_pc = "done"
    => /\ ~SomePageHasWord
          => chunk_out.raised # "" /\ chunk_out.chunks = <<>>
       /\ SomePageHasWord => chunk_out.raised = ""

C27_Witness ==
    /\ chunk_pc = "done"
    /\ Len(pages) = 2
    /\ pages[1] = <<>>
    /\ pages[2] = <<" ", "\n", " ">>
    /\ chunk_out.raised = "ChunkingError: PDF contains no extractable text"
    /\ chunk_out.chunks = <<>>

\* the paragraphs of the document handed to chunk_pages and their numbers
\* of words
DocParagraphs == paragraphs(full_text(pages))

DocCounts == [i \in 1..Len(DocParagraphs) |-> WordCount(DocParagraphs[i])]

RECURSIVE Sum(_)
Sum(counts) == IF counts = <<>> THEN 0 ELSE Head(counts) + Sum(Tail(counts))

\* the largest number of whole leading paragraphs that fit in mw words
FitCount(counts, mw) ==
    CHOOSE k \in 0..Len(counts) :
        /\ Sum(SubSeq(counts, 1, k)) <= mw
        /\ k < Len(counts) => Sum(SubSeq(counts, 1, k + 1)) > mw

\* a document of several paragraphs that totals 1500 words for
\* max_words = 900, at the model's scale
FifteenToNine ==
    /\ Len(DocCounts) >= 2
    /\ Sum(DocCounts) * 900 = max_words * 1500

\* exactly two chunks: the leading paragraphs that fit, then the rest
TwoChunksAtTheFit ==
    LET k == FitCount(DocCounts, max_words) IN
        /\ Len(chunk_out.chunks) = 2
        /\ chunk_out.chunks[1] = join(SubSeq(DocParagraphs, 1, k), ParaSep)
        /\ chunk_out.chunks[2] =
              join(SubSeq(DocParagraphs, k + 1, Len(DocParagraphs)), ParaSep)
        /\ WordCount(chunk_out.chunks[1]) + WordCount(chunk_out.chunks[2])
              = Sum(DocCounts)

\* C28 as stated: a paragraph-separated document totalling 1500 words with
\* max_words = 900 yields exactly 2 chunks, the first holding as many whole
\* leading paragraphs as fit within 900 words and the second the rest, the
\* two word counts summing to 1500.
C28_Stated_TwoChunksFor1500Words ==
    (chunk_pc = "done" /\ chunk_out.raised = "" /\ FifteenToNine)
    => TwoChunksAtTheFit

\* every paragraph fits in a chunk, and the paragraphs left after the
\* leading ones that fit together fit in one chunk too
RestFitsInOneChunk ==
    LET k == FitCount(DocCounts, max_words) IN
        /\ \A i \in 1..Len(DocCounts) : DocCounts[i] <= max_words
        /\ Sum(SubSeq(DocCounts, k + 1, Len(DocCounts))) <= max_words

\* C28 amended: such a document yields exactly these 2 chunks when no
\* paragraph has more than max_words words and the paragraphs that follow
\* the leading ones that fit total at most max_words words; otherwise it
\* yields more than 2 chunks; in both cases the chunks' word counts sum to
\* the document's.
C28_TwoChunksWhenRestFits ==
    (chunk_pc = "done" /\ chunk_out.raised = "" /\ FifteenToNine)
    => /\ RestFitsInOneChunk => TwoChunksAtTheFit
       /\ ~RestFitsInOneChunk => Len(chunk_out.chunks) > 2
       /\ Sum([i \in 1..Len(chunk_out.chunks) |->
                 WordCount(chunk_out.chunks[i])]) = Sum(DocCounts)

C28_Witness ==
    /\ chunk_pc = "done"
    /\ max_words = 3
    /\ DocCounts = <<2, 1, 2>>
    /\ chunk_out.chunks = <<Document(<<2, 1>>), Paragraph(2)>>

IsOversized(i) == DocCounts[i] > max_words

\* the chunks of paragraph i when it is emitted on its own
OwnChunks(i) == WordSlices(split_words(DocParagraphs[i]), max_words)

\* C32: a paragraph with more than max_words words is emitted as chunks of
\* its own, consecutive groups of max_words of its words in word order (the
\* last one possibly shorter), and these chunks stand in the output right
\* after the chunks that hold the words of the paragraphs before it.
C32_OversizedParagraphInPlace ==
    (chunk_pc = "done" /\ chunk_out.raised = "")
    => \A i \in 1..Len(DocParagraphs) :
          IsOversized(i)
          => \E k \in 1..Len(chunk_out.chunks) :
                /\ k + Len(OwnChunks(i)) - 1 <= Len(chunk_out.chunks)
                /\ SubSeq(chunk_out.chunks, k, k + Len(OwnChunks(i)) - 1)
                      = OwnChunks(i)
                /\ AllWords(SubSeq(chunk_out.chunks, 1, k - 1))
                      = AllWords(SubSeq(DocParagraphs, 1, i - 1))

\* chunk c is one of the groups of an oversized paragraph
IsOwnChunk(c) ==
    \E i \in 1..Len(DocParagraphs) :
        /\ IsOversized(i)
        /\ \E n \in 1..Len(OwnChunks(i)) : OwnChunks(i)[n] = c

\* chunk c is the paragraphs a..b of the document, none of them oversized,
\* and the paragraph after them, if it is packed too, did not fit
IsGreedyRun(c, a, b) ==
    /\ c = join(SubSeq(DocParagraphs, a, b), ParaSep)
    /\ \A i \in a..b : ~IsOversized(i)
    /\ Sum(SubSeq(DocCounts, a, b)) <= max_words
    /\ (b < Len(DocParagraphs) /\ ~IsOversized(b + 1))
          => Sum(SubSeq(DocCounts, a, b + 1)) > max_words

\* C33: packing is greedy and keeps paragraphs whole: every chunk that is
\* not a group of an oversized paragraph is a run of whole paragraphs that
\* are adjacent in the document, closed only because the next paragraph
\* would push its word count above max_words.
C33_GreedyRunsOfAdjacentParagraphs ==
    (chunk_pc = "done" /\ chunk_out.raised = "")
    => \A n \in 1..Len(chunk_out.chunks) :
          \/ IsOwnChunk(chunk_out.chunks[n])
          \/ \E a \in 1..Len(DocParagraphs) :
                \E b \in a..Len(DocParagraphs) :
                    IsGreedyRun(chunk_out.chunks[n], a, b)

\* C39: when chunk_pages returns instead of raising, it returns at least
\* one chunk and every chunk it returns holds at least one word.
C39_ReturnsNonEmptyChunks ==
    (chunk_pc = "done" /\ chunk_out.raised = "")
    => /\ Len(chunk_out.chunks) >= 1
       /\ \A i \in 1..Len(chunk_out.chunks) :
             WordCount(chunk_out.chunks[i]) >= 1

C39_Witness ==
    /\ chunk_pc = "done"
    /\ chunk_out.raised = ""
    /\ max_words = 3
    /\ DocCounts = <<3, 3>>
    /\ chunk_out.chunks = <<Paragraph(3), Paragraph(3)>>

(***************************************************************************)
(* Claims about translate_chunk, checked under SpecTranslate.              *)
(***************************************************************************)
BlankAnswer(o) == o.kind = "null" \/ (o.kind = "text" /\ strip(o.content) = <<>>)

FailedAnswer(o) == o.kind = "raise" \/ BlankAnswer(o)

AnswerError(o) ==
    IF o.kind = "raise" THEN o.err ELSE "Empty translation output from API"

\* C7: if the API fails (raises or answers blank) on the first k attempts
\* and succeeds on attempt k+1 <= max_retries, translate_chunk returns that
\* answer, stripped, after exactly k+1 attempts and exactly k sleeps.
C7_RetrySuccess ==
    (t_pc = "returned" /\ api_log # <<>>)
    => LET n == Len(api_log)
       IN  /\ n <= max_retries
           /\ attempt = n
           /\ \A i \in 1..(n - 1) : FailedAnswer(api_log[i])
           /\ ~FailedAnswer(api_log[n])
           /\ t_result = strip(api_log[n].content)
           /\ Len(sleeps) = n - 1

C7_Witness ==
    /\ t_pc = "returned"
    /\ max_retries = 3
    /\ Len(api_log) = 3
    /\ FailedAnswer(api_log[1]) /\ FailedAnswer(api_log[2])
    /\ Len(sleeps) = 2

\* C8: if every attempt fails, translate_chunk makes exactly max_retries
\* attempts with max_retries - 1 sleeps (none after the last attempt) and
\* raises a TranslationError that carries the last attempt's error; while
\* no attempt has succeeded it never returns a value.
C8_RetryExhaustion ==
    /\ Len(api_log) <= max_retries
    /\ (api_log # <<>> /\ \A i \in 1..Len(api_log) : FailedAnswer(api_log[i]))
       => /\ t_pc # "returned"
          /\ t_result = <<>>
          /\ (Len(api_log) = max_retries => t_pc = "raised")
    /\ t_pc = "raised"
       => /\ Len(api_log) = max_retries
          /\ \A i \in 1..Len(api_log) : FailedAnswer(api_log[i])
          /\ Len(sleeps) = max_retries - 1
          /\ t_error # <<>>
          /\ t_error[Len(t_error)] = AnswerError(api_log[max_retries])

C8_Witness ==
    /\ t_pc = "raised"
    /\ max_retries = 3
    /\ Len(api_log) = 3
    /\ api_log[3].kind = "raise"

\* C9: a blank answer of the API (None, empty or whitespace-only) counts as
\* a failed attempt like a raised exception: it is followed by the same
\* backoff sleep and retry, or by the TranslationError when it was the last
\* attempt, and translate_chunk never returns a blank text that came from
\* the API.
C9_BlankAnswerIsFailure ==
    /\ \A i \in 1..Len(api_log) :
          BlankAnswer(api_log[i])
          => /\ i < max_retries
                => /\ Len(sleeps) >= i
                   /\ sleeps[i] = sleep_between_retries * i
                   /\ i = Len(api_log)
                      => \/ t_pc = "sleeping" /\ attempt = i
                         \/ t_pc = "attempt" /\ attempt = i + 1
             /\ i = max_retries
                => /\ t_pc = "raised"
                   /\ t_error[Len(t_error)] = "Empty translation output from API"
    /\ (t_pc = "returned" /\ api_log # <<>>) => NonBlank(t_result)

C9_Witness ==
    /\ t_pc = "returned"
    /\ Len(api_log) >= 2
    /\ BlankAnswer(api_log[1])
    /\ NonBlank(t_text)

\* C29: the backoff is linear in the attempt number: the sleep after
\* failed attempt n is sleep_between_retries * n (2 s, then 4 s with the
\* defaults), and attempt n + 1 is made only once that sleep has returned:
\* the API is never called while a sleep is under way.
C29_LinearBackoff ==
    /\ [](\A n \in 1..Len(sleeps) : sleeps[n] = sleep_between_retries * n)
    /\ [](t_pc = "attempt"
            => Len(api_log) = attempt - 1 /\ Len(sleeps) = attempt - 1)
    /\ [](t_pc = "sleeping"
            => Len(api_log) = attempt /\ Len(sleeps) = attempt)
    /\ [][api_log' # api_log /\ api_log' # <<>> => t_pc = "attempt"]_vars

C29_Witness ==
    /\ max_retries = DEFAULT_MAX_RETRIES
    /\ sleeps = <<2, 4>>
    /\ t_pc = "attempt"
    /\ attempt = 3

(***************************************************************************)
(* Claims about process_translation_job, checked under SpecPipeline.       *)
(***************************************************************************)
StageRaised == p_error # <<>> /\ p_error[1] # "JobTimeoutError"

JobStatus == JOB_STORE[p_job].status

N_Translate(n) == [i \in 1..n |-> "translate"]

\* C4: if a stage raises (extraction, chunking, translator set-up, a chunk
\* translation after its retries, rendering), the job is failed at once
\* with a message that carries the text of the exception, the pipeline is
\* over, and from then on no stage or chunk call is started and the job
\* record no longer changes.
C4_StageErrorFailsJob ==
    /\ [](StageRaised
          => /\ p_pc = "done"
             /\ JobStatus = "failed"
             /\ Len(JOB_STORE[p_job].message) = Len(p_error)
             /\ Tail(JOB_STORE[p_job].message) = Tail(p_error))
    /\ [][StageRaised
          => /\ calls' = calls
             /\ translated_chunks' = translated_chunks
             /\ JOB_STORE' = JOB_STORE
             /\ p_error' = p_error]_vars

C4_Witness ==
    /\ StageRaised
    /\ p_error[2] = "Translation failed after"
    /\ calls = <<"extract", "chunk", "translate", "translate">>
    /\ Len(chunk_out.chunks) = 3

\* C5: a job is completed only if extraction and chunking succeeded, every
\* chunk of the chunker was translated, in order, to a non-blank text, the
\* render call was made and returned without error, and no exception was
\* caught.
C5_CompletedOnlyAfterFullRun ==
    (p_job \in DOMAIN JOB_STORE /\ JobStatus = "completed")
    => /\ p_error = <<>>
       /\ p_pc = "done"
       /\ total_chars(pages) >= MIN_TOTAL_CHARS
       /\ chunk_out.raised = ""
       /\ Len(chunk_out.chunks) >= 1
       /\ Len(translated_chunks) = Len(chunk_out.chunks)
       /\ \A i \in 1..Len(translated_chunks) : NonBlank(translated_chunks[i])
       /\ calls = <<"extract", "chunk">>
                  \o N_Translate(Len(chunk_out.chunks)) \o <<"render">>
       /\ p_job \in outputs

C5_Witness ==
    /\ p_job \in DOMAIN JOB_STORE
    /\ JobStatus = "completed"
    /\ Len(chunk_out.chunks) = 3
    /\ ~MOCK_TRANSLATION

IsPrefix(s, t) == Len(s) <= Len(t) /\ s = SubSeq(t, 1, Len(s))

\* the calls a complete run makes, for the chunks the chunker returned
ExpectedCalls ==
    <<"extract", "chunk">> \o N_Translate(Len(chunk_out.chunks)) \o <<"render">>

TranslateCalls == Len(SelectSeq(calls, LAMBDA c : c = "translate"))

\* an external call of the job has been started and has not yet handed
\* its result back to process_translation_job
CallInFlight ==
    \/ p_pc \in {"extracting", "translating", "rendering"}
    \/ t_pc # "idle"

\* C15: the progress values written to a job by the successive update,
\* complete and fail calls of its pipeline never decrease, for one chunk
\* and for several, wherever the run ends.
C15_ProgressNeverDecreases ==
    [][(p_job \in DOMAIN JOB_STORE /\ p_job \in DOMAIN JOB_STORE')
       => JOB_STORE'[p_job].progress >= JOB_STORE[p_job].progress]_vars

C15_Witness ==
    /\ p_job \in DOMAIN JOB_STORE
    /\ JobStatus = "failed"
    /\ Len(chunk_out.chunks) = 3
    /\ JOB_STORE[p_job].progress = 73
    /\ p_error[1] = "TranslationError"

\* C16: the external work of a job is sequential and ordered: the calls
\* started so far are a prefix of Extract, Chunk, one translation per chunk,
\* Render; the translation in flight is that of the next chunk in chunk
\* order; and a call is started only when no other call of the job is in
\* flight.
C16_CallsSequentialInOrder ==
    /\ [](/\ IF Len(calls) <= 1 THEN IsPrefix(calls, <<"extract">>)
             ELSE IsPrefix(calls, ExpectedCalls)
          /\ t_pc # "idle" => p_pc = "translating"
          /\ p_pc = "translating"
             => /\ TranslateCalls = Len(translated_chunks) + 1
                /\ TranslateCalls <= Len(chunk_out.chunks)
                /\ t_text = chunk_out.chunks[TranslateCalls])
    /\ [][calls' # calls => ~CallInFlight]_vars

C16_Witness ==
    /\ p_pc = "translating"
    /\ t_pc = "sleeping"
    /\ calls = <<"extract", "chunk", "translate", "translate", "translate">>
    /\ Len(translated_chunks) = 2

\* C17: process_translation_job never raises to its caller: whatever
\* exception a stage raises, an except clause catches it, the function
\* returns, and the failure shows only as the job's failed status and
\* message.
C17_NeverRaisesToCaller ==
    /\ p_pc # "raised"
    /\ p_error # <<>>
       => /\ p_pc = "done"
          /\ JobStatus = "failed"
          /\ JOB_STORE[p_job].message # <<>>
          /\ disk[p_job].status = "failed"

C17_Witness ==
    /\ p_pc = "done"
    /\ p_error # <<>>
    /\ p_error[1] = "PDFWriteError"
    /\ JobStatus = "failed"

\* C6: a stage or chunk call is started only if the deadline (TIME_LIMIT
\* seconds from the start of the job) is not already exceeded at that
\* moment; when it is exceeded the unit is not started and the job is
\* failed with the timeout message.
C6_NoUnitStartsPastDeadline ==
    [][(p_pc \in {"chunk", "loop", "render"} /\ timed_out(elapsed)
        /\ p_pc' # p_pc)
       => /\ calls' = calls
          /\ JOB_STORE'[p_job].status = "failed"
          /\ JOB_STORE'[p_job].message = failure_message(<<"JobTimeoutError">>)]_vars

\* C31: during the Translate stage the job's progress never runs ahead of
\* the translations that have returned: with k chunks of n translated it is
\* at most 40 + floor(k * 50 / n), so 90 is not visible while a chunk of
\* the job is still untranslated.
C31_ProgressFollowsTranslation ==
    p_pc \in {"loop", "translating"}
    => JOB_STORE[p_job].progress
          <= chunk_progress(Len(translated_chunks), Len(chunk_out.chunks))

\* C34: every job handed to process_translation_job terminates: when every
\* external call returns or raises, the job reaches completed or failed,
\* for every chunk count and every pattern of failed attempts.
C34_EveryStartedJobTerminates ==
    (p_pc # "none") ~> (p_pc = "done" /\ Terminal(JOB_STORE[p_job]))

C34_Witness ==
    /\ p_pc = "done"
    /\ JobStatus = "completed"
    /\ Len(chunk_out.chunks) = 3
    /\ sleeps = <<2, 4>>
    /\ elapsed > TIME_LIMIT

TerminalCalls == SelectSeq(store_calls, LAMBDA c : c \in {"complete", "fail"})

\* C37: a run of process_translation_job makes exactly one terminal store
\* call, complete_job or fail_job, never both; it is the last store call of
\* the run, and the run is over exactly when it has been made.
C37_OneTerminalCallAndNothingAfter ==
    /\ p_pc # "raised"
    /\ Len(TerminalCalls) <= 1
    /\ Len(TerminalCalls) = 1 <=> p_pc = "done"
    /\ Len(TerminalCalls) = 1
       => /\ store_calls[Len(store_calls)] = TerminalCalls[1]
          /\ TerminalCalls[1] = "complete" <=> JobStatus = "completed"
          /\ TerminalCalls[1] = "fail" <=> JobStatus = "failed"

C37_Witness ==
    /\ p_pc = "done"
    /\ p_error = <<"JobTimeoutError">>
    /\ store_calls = <<"update", "update", "update", "update", "fail">>

(***************************************************************************)
(* SpecDownload: the download endpoint beside the job's worker and the     *)
(* sweep.  download_translated_pdf runs on the event loop while            *)
(* process_translation_job and the sweep run on their own threads, so the  *)
(* store and the files may change between its statements.  The status it   *)
(* tests is read from the dict get_job returned; a status only moves from  *)
(* started to completed or failed, so the look-up and the two tests on the *)
(* dict are one step.                                                      *)
(***************************************************************************)
DownloadRest ==
    /\ UNCHANGED <<uploads, outputs, issued, clock, jobs_to_cleanup, cjob,
                   cpc, cleaned>>
    /\ UNCHANGED <<chunkVars, trVars, pipeVars, auxVars, ioVars, loginVars>>

\* a variant that serves a job in any status
download_ready_any_status(job) == TRUE

\* main.py 484: job["status"] != "completed" raises HTTPException(400)
download_ready(job) == job.status = "completed"

\* main.py 476-489: get_job, 404 when it returns None, 400 when the job is
\* not completed
download_lookup(j) ==
    /\ d_pc = "idle"
    /\ get_job(j)
    /\ d_job' = j
    /\ LET job == get_job_result(j) IN
         IF job = <<>> THEN d_resp' = 404 /\ d_pc' = "idle"
         ELSE IF ~download_ready(job[1]) THEN d_resp' = 400 /\ d_pc' = "idle"
         ELSE d_resp' = 0 /\ d_pc' = "file"
    /\ DownloadRest

\* main.py 492-499: os.path.exists(output_path), 404 when it is absent
download_file_check ==
    /\ d_pc = "file"
    /\ IF d_job \in outputs
       THEN d_resp' = 0 /\ d_pc' = "mark"
       ELSE d_resp' = 404 /\ d_pc' = "idle"
    /\ UNCHANGED <<JOB_STORE, disk, d_job>>
    /\ DownloadRest

\* main.py 505-515: mark_downloaded, then FileResponse, which answers 500
\* when the file has gone since the test
download_send ==
    /\ d_pc = "mark"
    /\ mark_downloaded(d_job)
    /\ d_resp' = IF d_job \in outputs THEN 200 ELSE 500
    /\ d_pc' = "idle"
    /\ UNCHANGED d_job
    /\ DownloadRest

\* the job's text: too short to translate, or one chunk
DownloadPages == {<<<<"x">>>>, <<Pad(<<"x">>)>>}

\* the API raises or answers with a text
DownloadApi == {o \in ApiOutcomes : o.kind = "raise" \/ o.content = <<"t">>}

NextDownload ==
    \/ \E j \in JobIds : submit(j)
    \/ process_start
    \/ extract_raises
    \/ \E pgs \in DownloadPages : extract_returns(pgs)
    \/ chunk_stage
    \/ \E key_set \in BOOLEAN : translator_setup(key_set)
    \/ translate_next_chunk
    \/ \E o \in DownloadApi : api_attempt(o)
    \/ sleep_done
    \/ translate_returns
    \/ translate_raises
    \/ render_start
    \/ render_returns
    \/ render_raises
    \/ Tick
    \/ schedule_next
    \/ \E j \in JobIds : download_lookup(j)
    \/ download_file_check
    \/ download_send

SpecDownload == InitPipeline /\ [][NextDownload]_vars

\* every record of the store and of the disk that is marked downloaded is
\* completed
DownloadedIsCompleted ==
    /\ \A j \in DOMAIN JOB_STORE :
          JOB_STORE[j].downloaded => JOB_STORE[j].status = "completed"
    /\ \A j \in DOMAIN disk :
          disk[j].downloaded => disk[j].status = "completed"

\* C36: the file is sent and mark_downloaded is called only after the
\* request has found the job, read status completed and found the output
\* file; a request answered 400 or 404 leaves what get_job returns for
\* every id as it was; and every record marked downloaded is completed.
C36_DownloadOnlyWhenCompleted ==
    /\ [][(d_pc' = "file" /\ d_pc # "file")
          => /\ d_job' \in DOMAIN JOB_STORE'
             /\ JOB_STORE'[d_job'].status = "completed"]_vars
    /\ [][(d_pc' = "mark" /\ d_pc # "mark")
          => d_pc = "file" /\ d_job \in outputs]_vars
    /\ [][(download_send \/ (d_resp' # d_resp /\ d_resp' \in {200, 500}))
          => d_pc = "mark"]_vars
    /\ [][(/\ \/ \E j \in JobIds : download_lookup(j)
               \/ download_file_check
            /\ d_resp' \in {400, 404})
          => \A j \in JobIds : get_job_result(j)' = get_job_result(j)]_vars
    /\ []DownloadedIsCompleted

C36_Witness ==
    /\ d_pc = "idle"
    /\ d_resp = 200
    /\ d_job \in DOMAIN JOB_STORE
    /\ JOB_STORE[d_job].downloaded
    /\ d_job \in DOMAIN disk
    /\ disk[d_job].downloaded

(***************************************************************************)
(* SpecFrame: two jobs side by side.  Their workers and the download       *)
(* endpoint call the store operations with either id, status requests call *)
(* get_job, and one sweep cleans the jobs that have grown old.             *)
(***************************************************************************)
NextFrame ==
    \/ \E j \in SweepIds : upload_pdf(j)
    \/ \E j \in SweepIds : Call_update_job(j, 10, <<"m1">>)
    \/ \E j \in SweepIds : Call_complete_job(j)
    \/ \E j \in SweepIds : Call_fail_job(j, <<"m2">>)
    \/ \E j \in SweepIds : Call_mark_downloaded(j)
    \/ \E j \in SweepIds : Call_get_job(j)
    \/ \E j \in SweepIds : write_output(j)
    \/ cleanup_old_jobs
    \/ cleanup_job_files_call
    \/ cleanup_remove_original(FALSE)
    \/ cleanup_remove_translated(FALSE)
    \/ cleanup_remove_metadata(FALSE)
    \/ cleanup_remove_memory

\* the jobs created so far are new and old enough for the sweep
InitFrame ==
    /\ JOB_STORE \in UNION {[S -> {NewJob(0)}] : S \in SUBSET SweepIds}
    /\ disk = [j \in DOMAIN JOB_STORE |-> data_to_save(JOB_STORE[j])]
    /\ uploads = DOMAIN JOB_STORE
    /\ outputs = {}
    /\ issued = DOMAIN JOB_STORE
    /\ clock = MaxClock - 1
    /\ jobs_to_cleanup = {}
    /\ cjob = 0
    /\ cpc = "idle"
    /\ cleaned = {}
    /\ AuxIdle
    /\ IoIdle
    /\ LoginIdle
    /\ DownloadIdle
    /\ ChunkIdle
    /\ TranslateIdle
    /\ PipelineIdle

SpecFrame == InitFrame /\ [][NextFrame]_vars

\* a step of an operation called with job id j
OperationOn(j) ==
    \/ upload_pdf(j)
    \/ Call_update_job(j, 10, <<"m1">>)
    \/ Call_complete_job(j)
    \/ Call_fail_job(j, <<"m2">>)
    \/ Call_mark_downloaded(j)
    \/ Call_get_job(j)
    \/ write_output(j)
    \/ /\ cjob = j
       /\ \/ cleanup_remove_original(FALSE)
          \/ cleanup_remove_translated(FALSE)
          \/ cleanup_remove_metadata(FALSE)
          \/ cleanup_remove_memory

\* the step leaves job k's record in memory, its record on disk and its
\* upload and output files as they are
SameJob(k) ==
    /\ (k \in DOMAIN JOB_STORE) = (k \in DOMAIN JOB_STORE')
    /\ k \in DOMAIN JOB_STORE => JOB_STORE'[k] = JOB_STORE[k]
    /\ (k \in DOMAIN disk) = (k \in DOMAIN disk')
    /\ k \in DOMAIN disk => disk'[k] = disk[k]
    /\ (k \in uploads) = (k \in uploads')
    /\ (k \in outputs) = (k \in outputs')

\* C38: a step of create, update, complete, fail, mark_downloaded, get_job,
\* the writing of the output file or cleanup_job_files for one job id
\* leaves every other job's record in memory, record on disk and files
\* unchanged.
C38_OtherJobsUntouched ==
    [][\A j \in SweepIds :
          OperationOn(j) => \A k \in SweepIds \ {j} : SameJob(k)]_vars

\* one job has been updated, completed and downloaded, the other has been
\* cleaned up meanwhile and the first kept its record and files
C38_Witness ==
    /\ 2 \in cleaned
    /\ Gone(2)
    /\ 1 \in DOMAIN JOB_STORE
    /\ JOB_STORE[1].downloaded
    /\ JOB_STORE[1].status = "completed"
    /\ disk[1] = data_to_save(JOB_STORE[1])
    /\ 1 \in uploads
    /\ 1 \in outputs

(***************************************************************************)
(* The login lockout (admin_routes.py).  verify_admin_credentials is a     *)
(* plain def used as a dependency of every admin route, so each request    *)
(* runs it on a worker thread and requests interleave between statements.  *)
(* login_tracker is the one LoginAttemptTracker of the process and has no  *)
(* lock.  One username, ADMIN_USERNAME, is modelled; a request carries the *)
(* right password or a wrong one.                                          *)
(***************************************************************************)
ADMIN_USERNAME == 1

\* a variant that keeps every attempt, however old
recent_never_expires(times, now) == times

\* is_locked_out 170-174: the attempts newer than now - lockout_duration
recent(times, now) == SelectSeq(times, LAMBDA a : a > now - lockout_duration)

\* is_locked_out 177
locked_out(times) == Len(times) >= max_attempts

\* max_attempts of the given failure times lie in the window
FiveInWindow(times, now) == Len(recent(times, now)) >= max_attempts

LoginRest == UNCHANGED <<storeVars, chunkVars, trVars, pipeVars, auxVars,
                         ioVars, dlVars>>

\* a request with HTTP Basic credentials reaches verify_admin_credentials
login_request(r, cred) ==
    /\ l_pc[r] = "idle"
    /\ logins < MaxLogins
    /\ logins' = logins + 1
    /\ l_pc' = [l_pc EXCEPT ![r] = "is_locked_out"]
    /\ l_cred' = [l_cred EXCEPT ![r] = cred]
    /\ l_resp' = [l_resp EXCEPT ![r] = 0]
    /\ l_kept' = [l_kept EXCEPT ![r] = <<>>]
    /\ l_due' = [l_due EXCEPT ![r] = FiveInWindow(failed, l_now)]
    /\ UNCHANGED <<attempts, l_now, failed, failed_all>>
    /\ LoginRest

\* is_locked_out 166-173: no entry means not locked out; otherwise the
\* comprehension reads the list
is_locked_out_read(r) ==
    /\ l_pc[r] = "is_locked_out"
    /\ IF ADMIN_USERNAME \notin DOMAIN attempts
       THEN /\ l_pc' = [l_pc EXCEPT ![r] = "credentials"]
            /\ UNCHANGED l_kept
       ELSE /\ l_kept' = [l_kept EXCEPT
                             ![r] = recent(attempts[ADMIN_USERNAME], l_now)]
            /\ l_pc' = [l_pc EXCEPT ![r] = "store"]
    /\ UNCHANGED <<attempts, l_now, l_cred, l_resp, failed, failed_all, l_due,
                   logins>>
    /\ LoginRest

\* is_locked_out 171: the new list replaces the entry
is_locked_out_store(r) ==
    /\ l_pc[r] = "store"
    /\ attempts' = [u \in DOMAIN attempts \cup {ADMIN_USERNAME} |-> l_kept[r]]
    /\ l_pc' = [l_pc EXCEPT ![r] = "len"]
    /\ UNCHANGED <<l_now, l_cred, l_kept, l_resp, failed, failed_all, l_due,
                   logins>>
    /\ LoginRest

\* is_locked_out 177 and verify_admin_credentials 225-232: the entry is read
\* again; locked out is answered with 429, a deleted entry raises KeyError
\* (500)
is_locked_out_return(r) ==
    /\ l_pc[r] = "len"
    /\ IF ADMIN_USERNAME \notin DOMAIN attempts
       THEN /\ l_resp' = [l_resp EXCEPT ![r] = 500]
            /\ l_pc' = [l_pc EXCEPT ![r] = "idle"]
       ELSE IF locked_out(attempts[ADMIN_USERNAME])
       THEN /\ l_resp' = [l_resp EXCEPT ![r] = 429]
            /\ l_pc' = [l_pc EXCEPT ![r] = "idle"]
       ELSE /\ l_pc' = [l_pc EXCEPT ![r] = "credentials"]
            /\ UNCHANGED l_resp
    /\ UNCHANGED <<attempts, l_now, l_cred, l_kept, failed, failed_all, l_due,
                   logins>>
    /\ LoginRest

\* record_attempt 179-183
record_attempt(dict, now) ==
    [u \in DOMAIN dict \cup {ADMIN_USERNAME} |->
        Append(IF u \in DOMAIN dict THEN dict[u] ELSE <<>>, now)]

\* clear_attempts 185-188
clear_attempts(dict) == [u \in DOMAIN dict \ {ADMIN_USERNAME} |-> dict[u]]

\* get_remaining_attempts 190-194
get_remaining_attempts(dict) ==
    IF ADMIN_USERNAME \notin DOMAIN dict THEN max_attempts
    ELSE IF max_attempts - Len(dict[ADMIN_USERNAME]) > 0
    THEN max_attempts - Len(dict[ADMIN_USERNAME])
    ELSE 0

\* verify_admin_credentials 235-259: the credentials are examined
check_credentials(r) ==
    /\ l_pc[r] = "credentials"
    /\ IF l_cred[r] = "bad"
       THEN /\ attempts' = record_attempt(attempts, l_now)
            /\ failed' = Append(failed, l_now)
            /\ failed_all' = Append(failed_all, l_now)
            /\ l_resp' = [l_resp EXCEPT ![r] = 401]
            /\ UNCHANGED l_due
       ELSE /\ attempts' = clear_attempts(attempts)
            /\ failed' = <<>>
            /\ l_due' = [q \in Requests |-> FALSE]
            /\ l_resp' = [l_resp EXCEPT ![r] = 200]
            /\ UNCHANGED failed_all
    /\ l_pc' = [l_pc EXCEPT ![r] = "idle"]
    /\ UNCHANGED <<l_now, l_cred, l_kept, logins>>
    /\ LoginRest

\* time passes between requests (a request is over within one value of the
\* clock); failures leave the window
login_tick ==
    /\ \A r \in Requests : l_pc[r] = "idle"
    /\ l_now + LoginTimeStep <= MaxLoginClock
    /\ l_now' = l_now + LoginTimeStep
    /\ l_due' = [q \in Requests |->
                    l_due[q] /\ FiveInWindow(failed, l_now + LoginTimeStep)]
    /\ UNCHANGED <<attempts, l_pc, l_cred, l_kept, l_resp, failed, failed_all,
                   logins>>
    /\ LoginRest

InitLogin == Init

NextLogin ==
    \/ \E r \in Requests, cred \in {"good", "bad"} : login_request(r, cred)
    \/ \E r \in Requests : is_locked_out_read(r)
    \/ \E r \in Requests : is_locked_out_store(r)
    \/ \E r \in Requests : is_locked_out_return(r)
    \/ \E r \in Requests : check_credentials(r)
    \/ login_tick

SpecLogin == InitLogin /\ [][NextLogin]_vars

\* C30: once max_attempts failed attempts lie in the lockout window, a
\* request that arrives while they stay there is answered with 429 and its
\* credentials are never examined; a request is answered with 429 only when
\* max_attempts failures lie in the window.
C30_LockoutAfterFiveFailures ==
    [][\A r \in Requests :
        /\ (l_pc[r] = "credentials" /\ l_pc'[r] = "idle") => ~l_due[r]
        /\ (l_resp[r] # 429 /\ l_resp'[r] = 429)
              => FiveInWindow(failed_all, l_now)]_vars

\* the 401 answers given less than lockout_duration ago
FailuresInWindow ==
    Cardinality({i \in DOMAIN failed_all :
                    l_now - failed_all[i] < lockout_duration})

\* C40: a request answered with 429 records no failure; a request is
\* answered with 429 only while max_attempts recorded failures are less
\* than lockout_duration old, so that once the oldest of them is older the
\* next request has its credentials examined; and the request that is
\* authenticated leaves the username with max_attempts remaining attempts.
C40_LockoutExpiresAndSuccessResets ==
    [][\A r \in Requests :
        /\ (l_resp[r] # 429 /\ l_resp'[r] = 429)
              => /\ attempts' = attempts
                 /\ failed_all' = failed_all
                 /\ FailuresInWindow >= max_attempts
        /\ (l_pc[r] = "credentials" /\ l_resp'[r] = 200)
              => get_remaining_attempts(attempts') = max_attempts]_vars

\* five failures at time 0, a request refused with 429 while they were in
\* the window, and a request authenticated once they had left it
C40_Witness ==
    /\ failed_all = <<0, 0, 0, 0, 0>>
    /\ l_now > lockout_duration
    /\ \E r \in Requests : l_resp[r] = 429
    /\ \E r \in Requests : l_resp[r] = 200 /\ l_pc[r] = "idle"
    /\ get_remaining_attempts(attempts) = max_attempts

=============================================================================
